---- MODULE Spec2Model ----
(***************************************************************************)
(* The execution/recovery engine of ThePathfinder (src/src/ThePathfinder.ts)*)
(* and the abort protocol of MovementExecutor (src/unnamed/part_000).      *)
(*                                                                         *)
(* One goto call chain (goto -> getPathFromTo -> postProcess -> perform -> *)
(* recovery -> ...) is a sequential process whose position is pc.  The     *)
(* chain only gives up control at an await that really suspends (a tick    *)
(* wait, an executor call, an interaction abort); the public calls         *)
(* cancel() and reset() act only at those positions (Suspended), as        *)
(* JavaScript runs each handler to completion.                             *)
(*                                                                         *)
(* Indices are the source's 0-based indices: a path is a sequence of move  *)
(* identifiers, path[i + 1] is the source's path.path[i].  Locals that     *)
(* have gone out of scope are put back to their initial value.             *)
(*                                                                         *)
(* Further goto calls made while the chain runs are kept in calls: each is *)
(* a short process of its own (a wait for the running task, then either    *)
(* cleanupAll or the start of a chain).                                    *)
(*                                                                         *)
(* The specifications share the actions:                                   *)
(*   Spec          everything: cancel(), reset(), the abort protocol,      *)
(*                 interactions, controls, performOpts; short paths;       *)
(*   SpecHold      as Spec for callers that set no performOpts and         *)
(*                 executors that set no control state;                    *)
(*   SpecRecovery  goto, perform and recovery on longer paths, with nobody *)
(*                 calling cancel() or reset();                            *)
(*   SpecReset     as SpecRecovery with reset() and the abort protocol;    *)
(*   SpecSkip      moves with intents and interactions, nobody calling     *)
(*                 cancel() or reset();                                    *)
(*   SpecSearch    the path generator and its producer under cancel() and  *)
(*                 reset(), moves without intents;                         *)
(*   SpecCalls     goto(null) and further goto(goal) calls made while a    *)
(*                 goto runs;                                              *)
(*   SpecWait      goto with a dynamic goal and its listeners;             *)
(*   SpecUpdate    the blockUpdate listener around a goto;                 *)
(*   SpecAbort     cancel(), reset() and a waiting goto followed until     *)
(*                 they return, the chain's continuations being fair;      *)
(*   SpecTerminate as SpecRecovery, the chain's steps being fair;          *)
(*   SpecEvents    as SpecRecovery, following the recovery events;         *)
(*   SpecJumpUp    getMoveJumpUp on its own;                               *)
(*   SpecInteract  interactPossible on its own.                            *)
(***************************************************************************)
EXTENDS Integers, Sequences, FiniteSets, TLC

(* ------------------------------ bounds --------------------------------- *)
\* Longest path a search returns where recovery is examined (SpecRecovery).
MaxLen == 3
\* Longest path a search returns where cancel, reset and the abort protocol
\* are examined (Spec).
MoveLen == 1
\* Largest distance (entryPos to the bot) recovery's comparator sees.
MaxDist == 2
\* Break intents and place intents a move carries, at most.
MaxIntents == 1
\* Largest number performPerTick returns (moves completed at once).
MaxAdd == 2
\* The tick ceiling of the align and per-tick loops.  The source compares
\* with 999 (ThePathfinder.ts:694 and :707); the loops depend on the ceiling
\* only through "tickCount < ceiling", so the model runs them with a small one.
TickCeiling == 2
\* Largest tick budget interactPossible is called with.
MaxTicks == 2
\* Largest remaining placeable count of the node a provider expands.
MaxBlocks == 2
\* The cost of the jump-up move before penalties (part_000:883).
MoveCost == 2
\* The cost above which the jump-up provider drops a candidate (part_000:930).
CostCeiling == 100
\* The largest rise the jump-up provider accepts, 1.2 blocks (part_000:927);
\* heights are counted in tenths of a block.
JumpHeight == 12
\* The height placing a block under the target adds, in tenths (part_000:923).
BlockHeight == 10
\* The runs of one cleanup callback that are told apart (more count as this).
MaxCleanups == 2
\* Slices (advance() calls) one search takes, at most.
MaxSlices == 3
\* The retry ceiling of perform.  The source rejects entry > 10
\* (ThePathfinder.ts:647); the model runs the same comparison with a small one.
RetryCeiling == 2

(* ------------------------------ values --------------------------------- *)
NoReason == "none"
Reasons == {"blockUpdate", "goalUpdated"}
Statuses == {"success", "partial", "partialSuccess", "noPath", "timeout"}
\* The statuses on which the consumers of the generator stop without a path
\* (lines 509 and 573).
Failed == {"noPath", "timeout"}
\* The statuses on which the loop of the path generator goes on (line 497).
Unfinished == {"partial", "partialSuccess"}
Moves == 0 .. (MaxLen - 1)

VARIABLES
  pc,        \* position of the goto call chain
  opts,      \* performOpts of the running goto
  taskDone,  \* executeTask.done
  pf,        \* ThePathfinder: userAborted, abortCalculation, resetReason,
             \*   hasProducer (_currentProducer != null), currentExecutor
             \*   ("none", "idle": the start executor, "move"),
             \*   executingPath (currentExecutingPath != null),
             \*   startAborted (the start executor's aborted flag)
  ex,        \* the movement executor: aborted, resetReason
  srch,      \* the running path generator: its consumer, its producer, the
             \*   status and the path of its last result
  perf,      \* the running perform: path, goal, entry, currentIndex, tickCount
  mv,        \* the current move: toBreak.length, toPlace.length
  cI,        \* the executor's interaction in flight: "none" | "break" | "place"
  controls,  \* some control state of the bot is set
  thrown,    \* the error on its way into perform's catch, and where it was thrown
  hold,      \* the running holdUntilAborted: its caller, loop index, what it did
  rec,       \* locals of the running recovery
  resume,    \* the pending tail of a short-replan recovery (<<>> if none)
  fatal,     \* message of the error goto rejected with
  hist,      \* history of the run, read by the properties only
  calls,     \* the goto calls made while the chain runs: the position of a
             \*   goto(null), of a goto(goal) that waits for the running
             \*   task, of a goto(goal) that did not have to wait, and of
             \*   one cancel() or reset() whose return is followed
  goal,      \* the goal of the running goto: whether it is dynamic, and the
             \*   listener registrations goto made for it (registerAll)
  fn         \* a call of one of the functions examined on their own: its
             \*   name, its arguments and, once it has returned, its result

\* The state of the goto chain and of the calls around it.
chain == << pc, opts, taskDone, pf, ex, srch, perf, mv, cI, controls, thrown,
            hold, rec, resume, fatal, hist, calls, goal >>

vars == << pc, opts, taskDone, pf, ex, srch, perf, mv, cI, controls, thrown,
           hold, rec, resume, fatal, hist, calls, goal, fn >>

(* --------------------------- pure helpers ------------------------------ *)
Min(a, b) == IF a < b THEN a ELSE b

Range(s) == { s[i] : i \in 1 .. Len(s) }

\* n copies of x.
Rep(x, n) == [i \in 1 .. n |-> x]

\* Array.prototype.indexOf: the first 0-based index of x, -1 if absent.
IndexOf(s, x) ==
  IF x \in Range(s)
    THEN (CHOOSE i \in 1 .. Len(s) : s[i] = x /\ \A j \in 1 .. (i - 1) : s[j] # x) - 1
    ELSE -1

\* Array.prototype.splice(0, k): what is left of s.
SpliceFront(s, k) == SubSeq(s, Min(k, Len(s)) + 1, Len(s))

\* A fresh path of n moves as a search returns it.
FreshPath(n) == [i \in 1 .. n |-> i - 1]

\* Insert x into the sorted s behind every element that is not farther (stable).
RECURSIVE InsertByDist(_, _, _)
InsertByDist(x, s, d) ==
  IF s = << >> THEN << x >>
  ELSE IF d[x] < d[Head(s)] THEN << x >> \o s
  ELSE << Head(s) >> \o InsertByDist(x, Tail(s), d)

\* path.path.sort((a, b) => a.entryPos.distanceTo(pos) - b.entryPos.distanceTo(pos)):
\* ascending by distance, equal distances keep their order.
RECURSIVE SortByDist(_, _)
SortByDist(s, d) ==
  IF s = << >> THEN << >>
  ELSE InsertByDist(s[Len(s)], SortByDist(SubSeq(s, 1, Len(s) - 1), d), d)

(* --------------------------- initial values ---------------------------- *)
NoOpts == [errorOnAbort |-> FALSE, errorOnReset |-> FALSE]
\* The performOpts goto is called with: both flags unset, or both set (line
\* 578 then decides before line 582, and each alone is one of these two at
\* each of the two tests).
PerformOpts == {NoOpts, [errorOnAbort |-> TRUE, errorOnReset |-> TRUE]}
NoPf == [userAborted |-> FALSE, abortCalculation |-> FALSE,
         resetReason |-> NoReason, hasProducer |-> FALSE,
         currentExecutor |-> "none", executingPath |-> FALSE,
         startAborted |-> FALSE]
NoEx == [aborted |-> FALSE, resetReason |-> NoReason]
\* A ContinuousPathProducer as constructed: astarContext undefined (0; else
\* the number of the AStar object it holds).  engines: the AStar objects it
\* has constructed; computed: the compute() calls its AStar object has run.
NoProducer == [astarContext |-> 0, engines |-> 0, computed |-> 0]
NoSrch == [for |-> "goto", result |-> << >>, status |-> "none",
           producer |-> NoProducer]
NoPerf == [path |-> << >>, processed |-> FALSE, goal |-> "goal", entry |-> 0,
           currentIndex |-> 0,
           tickCount |-> 0]
NoMv == [toBreak |-> 0, toPlace |-> 0]
NoThrown == [kind |-> "none", from |-> "none"]
NoHold == [at |-> "none", i |-> 0, breaks |-> 0, places |-> 0, trace |-> << >>]
NoRec == [ind |-> -1, no |-> FALSE, target |-> -1, first |-> -1, pre |-> << >>,
          entry |-> 0]
NoUpdate == [reset |-> FALSE, changed |-> FALSE, near |-> FALSE,
             own |-> FALSE, executing |-> FALSE]
NoHist == [watch |-> "none", cancelReq |-> FALSE, afterCancel |-> "none",
           resetReq |-> FALSE, own |-> FALSE, recCount |-> 0,
           alignFailed |-> FALSE, ceilingHit |-> FALSE, resumed |-> << >>,
           stale |-> "none", skipped |-> << >>, inits |-> 0, afterFlag |-> -1,
           update |-> NoUpdate, open |-> {}, unmatched |-> FALSE]

\* What a behaviour keeps a history of.  The program never reads hist; each
\* behaviour records the history of one concern, chosen at Init:
\*   "cancel": a user cancel during a move, and what started after it;
\*   "reset":  a reset during a move, until the next search begins, and
\*             whether the interaction in flight is one of the current move;
\*   "count":  the recovery invocations of the running top-level perform;
\*   "resume": the short-replan recovery whose tail is being performed;
\*   "ticks":  a loop of perform left at the tick ceiling, and how often
\*             _performInit was called for the move at the current index;
\*   "stale":  a reset during a move, and what becomes of the path that was
\*             being performed: "req" while that path is the one perform
\*             runs, "nested" while a short-replan recovery performs its
\*             replan and holds that path for later, "begun" once a further
\*             move of that path has been started;
\*   "skip":   what isAlreadyCompleted saw when it last answered true;
\*   "search": the advance() calls of the running search made since cancel()
\*             set abortCalculation (-1: it did not);
\*   "update": the last block update: what it was, whether perform was
\*             running when it came, and whether the listener called reset;
\*   "events": the entries for which enteredRecovery was emitted and
\*             exitedRecovery was not yet (open), and whether an
\*             exitedRecovery came for an entry that was not open.
Watches == {"cancel", "reset", "ticks"}
RecoveryWatches == {"count", "resume"}
ResetWatches == {"stale"}
SkipWatches == {"skip"}
SearchWatches == {"search"}
UpdateWatches == {"update"}
EventWatches == {"events"}
Watch(w) == hist.watch = w
FreshHist == [NoHist EXCEPT !.watch = hist.watch]

\* No goto call besides the chain.  null: "none", "task" (goto(null) awaits
\* executeTask.promise, line 524), "cleanup" (it is in cleanupAll, line 525);
\* waiting: "none", "abort" (line 532), "task" (line 533), "ready" (the
\* promise has resolved), "returned" (line 534); later, a goto(goal) issued
\* while that one waits: the same and "started" (past line 534); wanted:
\* the call whose goal wantedGoal holds; other: "none", "pathing" (past line
\* 539 while the chain runs).
\* A goal that is not dynamic, with no registration.  cur: the registration
\* manualCleanup and goal.cleanup name (made: there is one; active: its
\* listeners are on the bot; cleanups: the times its cleanup callback ran);
\* replaced: the cleanups of the registrations setupWait() has replaced;
\* leaked: one of them was replaced with its listeners on the bot.
NoReg == [made |-> FALSE, active |-> FALSE, cleanups |-> 0]
NoGoal == [dynamic |-> FALSE, cur |-> NoReg, replaced |-> {}, leaked |-> FALSE]

NoCalls == [null |-> "none", waiting |-> "none", other |-> "none",
            cancel |-> "none", later |-> "none", wanted |-> "none"]

\* No function is examined on its own.
NoFn == [op |-> "none"]

\* The pathfinder after construction, with no goto called yet.
InitChain ==
  /\ pc = "idle"
  /\ opts = NoOpts
  /\ taskDone = TRUE
  /\ pf = NoPf
  /\ ex = NoEx
  /\ srch = NoSrch
  /\ perf = NoPerf
  /\ mv = NoMv
  /\ cI = "none"
  /\ controls = FALSE
  /\ thrown = NoThrown
  /\ hold = NoHold
  /\ rec = NoRec
  /\ resume = << >>
  /\ fatal = "none"
  /\ calls = NoCalls
  /\ goal = NoGoal
  /\ hist = NoHist

InitWatching(ws) ==
  /\ fn = NoFn
  /\ pc = "idle"
  /\ opts = NoOpts
  /\ taskDone = TRUE
  /\ pf = NoPf
  /\ ex = NoEx
  /\ srch = NoSrch
  /\ perf = NoPerf
  /\ mv = NoMv
  /\ cI = "none"
  /\ controls = FALSE
  /\ thrown = NoThrown
  /\ hold = NoHold
  /\ rec = NoRec
  /\ resume = << >>
  /\ fatal = "none"
  /\ calls = NoCalls
  /\ goal = NoGoal
  /\ \E w \in ws : hist = [NoHist EXCEPT !.watch = w]

Init == InitWatching(Watches)

InitRecovery == InitWatching(RecoveryWatches)

InitReset == InitWatching(ResetWatches)

InitSkip == InitWatching(SkipWatches)

InitSearch == InitWatching(SearchWatches)

InitUpdate == InitWatching(UpdateWatches)

InitEvents == InitWatching(EventWatches)

(* ------------------- ThePathfinder: small procedures ------------------- *)
\* setupWait() of goto (lines 548-565): for a dynamic goal registerAll makes a
\* new registration, and manualCleanup and goal.cleanup (line 440) become its
\* cleanup callback; the registration they named before is only remembered
\* by the number of times its callback ran.
SetupWait(g) ==
  IF g.dynamic
    THEN [g EXCEPT !.replaced = IF g.cur.made THEN @ \cup {g.cur.cleanups}
                                               ELSE @,
                   !.leaked = @ \/ g.cur.active,
                   !.cur = [made |-> TRUE, active |-> TRUE, cleanups |-> 0]]
    ELSE g

\* The cleanup callback of the current registration runs (lines 409-419):
\* manualCleanup() or goal.cleanup().  Before the first setupWait()
\* manualCleanup is the empty function of line 546.
CleanupCallback(g) ==
  IF g.cur.made
    THEN [g EXCEPT !.cur.cleanups = Min(@ + 1, MaxCleanups),
                   !.cur.active = FALSE]
    ELSE g

\* check(): the typed failure it throws, "none" if it returns.
Check ==
  IF pf.userAborted THEN "abort"
  ELSE IF pf.resetReason # NoReason THEN "reset"
  ELSE "none"

\* cleanupBot(): clearControlStates() and reset() of every movement executor.
CleanupBot ==
  /\ controls' = FALSE
  /\ ex' = NoEx

\* The event cleanupAll emits for the goal (lines 818-819).
TerminalEvent(p) == IF p.userAborted THEN "goalAborted" ELSE "goalFinished"

\* this.bot.emit('enteredRecovery', entry) (line 735).
Entered(h, entry) ==
  IF h.watch = "events" THEN [h EXCEPT !.open = @ \cup {entry}] ELSE h

\* this.bot.emit('exitedRecovery', entry) (lines 766, 771, 779).
Exited(h, entry) ==
  IF h.watch = "events"
    THEN [h EXCEPT !.open = @ \ {entry},
                   !.unmatched = @ \/ entry \notin h.open]
    ELSE h

\* cleanupClient(): pf after it.
CleanupClient ==
  [pf EXCEPT !.abortCalculation = FALSE, !.userAborted = FALSE,
             !.resetReason = NoReason, !.currentExecutor = "none",
             !.executingPath = FALSE, !.startAborted = FALSE]

\* reset() of the movement executors (lines 151-155): task.finish() resolves
\* the promise an abort() of such an executor awaits (line 169).
Returned(c) == [c EXCEPT !.cancel = IF @ = "move" THEN "done" ELSE @]

\* An error leaves the try block of perform; the locals of the move are not
\* read again.
Throw(kind, from) ==
  /\ pc' = "catch"
  /\ thrown' = [kind |-> kind, from |-> from]
  /\ perf' = [perf EXCEPT !.tickCount = 0]
  /\ mv' = NoMv

\* An error leaves perform, recovery and goto uncaught: goto rejects, and the
\* locals of the call chain are gone.
Reject(msg) ==
  /\ pc' = "threw"
  /\ fatal' = msg
  /\ opts' = NoOpts
  /\ perf' = NoPerf
  /\ resume' = << >>

(* --------------- MovementExecutor.holdUntilAborted --------------------- *)
\* First statement of holdUntilAborted: the executor is aborted or resetting.
Flagged == ex.aborted \/ ex.resetReason # NoReason

\* Where holdUntilAborted suspends first once the executor is flagged.
HoldStart ==
  IF mv.toBreak > 0 THEN "hold_breaks"
  ELSE IF mv.toPlace > 0 THEN "hold_places"
  ELSE "hold_wait"

\* A call of _performInit or _performPerTick: held if flagged, else the
\* executor's own performInit / performPerTick starts.
CallHeld(at, run) ==
  IF Flagged
    THEN /\ pc' = HoldStart
         /\ hold' = [at |-> at, i |-> 0, breaks |-> mv.toBreak,
                     places |-> mv.toPlace, trace |-> << >>]
    ELSE /\ pc' = run
         /\ hold' = NoHold

\* await breakTarget._abort(this.bot) for one break intent.
HoldAbortBreak ==
  /\ pc = "hold_breaks"
  /\ cI' = IF cI = "break" THEN "none" ELSE cI
  /\ hist' = [hist EXCEPT !.own = @ /\ cI # "break"]
  /\ IF hold.i + 1 < mv.toBreak
       THEN /\ hold' = [hold EXCEPT !.i = @ + 1, !.trace = Append(@, "break")]
            /\ pc' = "hold_breaks"
       ELSE /\ hold' = [hold EXCEPT !.i = 0, !.trace = Append(@, "break")]
            /\ pc' = IF mv.toPlace > 0 THEN "hold_places" ELSE "hold_wait"
  /\ UNCHANGED << opts, taskDone, pf, ex, srch, perf, mv, controls, thrown,
                  rec, resume, fatal, calls, goal, fn >>

\* await place._abort(this.bot) for one place intent.
HoldAbortPlace ==
  /\ pc = "hold_places"
  /\ cI' = IF cI = "place" THEN "none" ELSE cI
  /\ hist' = [hist EXCEPT !.own = @ /\ cI # "place"]
  /\ IF hold.i + 1 < mv.toPlace
       THEN /\ hold' = [hold EXCEPT !.i = @ + 1, !.trace = Append(@, "place")]
            /\ pc' = "hold_places"
       ELSE /\ hold' = [hold EXCEPT !.i = 0, !.trace = Append(@, "place")]
            /\ pc' = "hold_wait"
  /\ UNCHANGED << opts, taskDone, pf, ex, srch, perf, mv, controls, thrown,
                  rec, resume, fatal, calls, goal, fn >>

\* A listener that resolves the wait on whatever tick comes.
TickResolvesAny(isSafe) == TRUE

\* The physicsTick listener of the wait (lines 196-202) resolves it on this
\* tick; isSafe is safeToCancel(): onGround || isInWater.
TickResolves(isSafe) == isSafe

\* A physicsTick during the wait.  Once resolved, lines 213-214 throw, or the
\* held performInit / performPerTick starts.
HoldTick(isSafe) ==
  /\ pc = "hold_wait"
  /\ IF TickResolves(isSafe)
       THEN /\ hold' = [hold EXCEPT
                          !.trace = Append(@, IF isSafe THEN "safeTick"
                                                        ELSE "unsafeTick")]
            /\ IF ex.resetReason # NoReason THEN Throw("reset", "hold")
               ELSE IF ex.aborted THEN Throw("abort", "hold")
               ELSE /\ pc' = IF hold.at = "init" THEN "init_run" ELSE "tick_run"
                    /\ UNCHANGED << thrown, perf, mv >>
       ELSE UNCHANGED << pc, hold, thrown, perf, mv >>
  /\ UNCHANGED << opts, taskDone, pf, ex, srch, cI, controls, rec, resume,
                  fatal, hist, calls, goal, fn >>

\* The timer of the wait fires first: reject(new Error(...)) (lines 204-208).
HoldTimeout ==
  /\ pc = "hold_wait"
  /\ hold' = [hold EXCEPT !.trace = Append(@, "timeout")]
  /\ Throw("error", "hold")
  /\ UNCHANGED << opts, taskDone, pf, ex, srch, cI, controls, rec, resume,
                  fatal, hist, calls, goal, fn >>

(* ----------------------------- goto ------------------------------------ *)
\* goto(goal, performOpts) with no other goto running: lines 538-541, and
\* the first pass through setupWait() into getPathTo().
Goto(o, dynamic) ==
  /\ pc = "idle"
  /\ taskDone
  /\ calls.waiting # "ready" /\ calls.null # "cleanup"
  /\ calls.later # "ready"
  /\ opts' = o
  /\ goal' = SetupWait([NoGoal EXCEPT !.dynamic = dynamic])
  /\ pf' = CleanupClient
  /\ taskDone' = FALSE
  /\ srch' = NoSrch
  /\ hist' = FreshHist
  /\ pc' = "search_begin"
  /\ UNCHANGED << ex, perf, mv, cI, controls, thrown, hold, rec, resume, fatal,
                  calls, fn >>

\* getPathFromTo up to its loop (lines 446-459); the producer is a new
\* ContinuousPathProducer (partialPathProducer unset).
SearchBegin ==
  /\ pc = "search_begin"
  /\ pf' = [pf EXCEPT !.abortCalculation = FALSE, !.resetReason = NoReason,
                      !.currentExecutor = "idle", !.hasProducer = TRUE,
                      !.startAborted = FALSE]
  /\ srch' = [srch EXCEPT !.producer = NoProducer, !.status = "none",
                          !.result = << >>]
  /\ hist' = [hist EXCEPT !.resetReq = FALSE, !.afterFlag = -1]
  /\ pc' = "search_advance"
  /\ UNCHANGED << opts, taskDone, ex, perf, mv, cI, controls, thrown,
                  hold, rec, resume, fatal, calls, goal, fn >>

\* A consumer that takes every search that ended for one that gave a path.
SearchOverAsPath == "post"

\* What the consumer of the generator does when the search is over without a
\* path: goto leaves its for-await loop, getPathFromToRaw returns null.
SearchOver == IF srch.for = "goto" THEN "goto_loop_end" ELSE "rec_null"

\* A producer that makes a new AStar object on every call.
AdvanceFresh(p) ==
  [astarContext |-> p.engines + 1, engines |-> p.engines + 1, computed |-> 1]

\* AStar.compute(): one more slice on the open and closed sets the object
\* holds; slices: the slices it has run.
Compute(slices) == slices + 1

\* ContinuousPathProducer.advance(): the producer after the call.  The AStar
\* object is made on the first call (lines 40-45); compute() runs on the
\* object the producer holds (line 47).
Advance(p) ==
  LET q == IF p.astarContext = 0
             THEN [astarContext |-> p.engines + 1, engines |-> p.engines + 1,
                   computed |-> 0]
             ELSE p
  IN [q EXCEPT !.computed = Compute(@)]

\* ContinuousPathProducer.getAstarContext().
GetAstarContext(p) == p.astarContext

\* A generator that takes every tick for seen.
TickedAlways == TRUE

\* The flag ticked of the generator at its test of line 493: line 461 sets it
\* false, and the listener that would set it (463-465) is never registered.
Ticked == FALSE

\* One advance() of the producer and the yield of its result (lines 474-491),
\* then, the consumer asking for more, the test of line 493.
SearchAdvance(status, n) ==
  /\ pc = "search_advance"
  /\ status \in Unfinished => srch.producer.computed + 1 < MaxSlices
  /\ IF status = "success"
       THEN /\ srch' = [srch EXCEPT !.result = FreshPath(n),
                                    !.status = status,
                                    !.producer = Advance(@)]
            /\ pc' = "post"
       ELSE /\ srch' = [srch EXCEPT !.status = status,
                                    !.producer = Advance(@)]
            /\ pc' = IF pf.abortCalculation \/ status \notin Unfinished
                       THEN SearchOver
                       ELSE IF Ticked THEN "search_advance" ELSE "search_wait"
  /\ hist' = [hist EXCEPT !.afterFlag = IF @ >= 0 THEN Min(@ + 1, 2) ELSE @]
  /\ UNCHANGED << opts, taskDone, pf, ex, perf, mv, cI, controls, thrown, hold,
                  rec, resume, fatal, calls, goal, fn >>

\* await this.bot.waitForTicks(1) of the generator, then its loop test.
SearchTick ==
  /\ pc = "search_wait"
  /\ pc' = "search_advance"
  /\ UNCHANGED << opts, taskDone, pf, ex, srch, perf, mv, cI, controls, thrown,
                  hold, rec, resume, fatal, hist, calls, goal, fn >>

\* postProcess() returns; goto calls perform(newPath, goal) (line 576),
\* recovery calls perform(path1, goal, entry + 1) (line 772) or
\* perform(path1, newGoal, entry + 1) (line 776).
\* A caller that hands the result of the search to perform as it is.
Unprocessed(pathInfo) == [path |-> pathInfo, processed |-> FALSE]

\* postProcess(pathInfo): the Path it returns, whose moves are the output of
\* optimizer.compute() (lines 616-627).  The moves keep the identifiers the
\* search gave them; processed says that the Path came out of postProcess.
PostProcessed(pathInfo) == [path |-> pathInfo, processed |-> TRUE]

PostProcess ==
  /\ pc = "post"
  /\ pc' = "perform_enter"
  /\ srch' = NoSrch
  /\ rec' = NoRec
  /\ IF srch.for = "goto"
       THEN /\ perf' = [NoPerf EXCEPT
                          !.path = PostProcessed(srch.result).path,
                          !.processed = PostProcessed(srch.result).processed]
            /\ resume' = resume
            /\ hist' = [hist EXCEPT !.recCount = 0, !.resumed = << >>,
                                    !.stale = "none"]
       ELSE /\ perf' = [NoPerf EXCEPT
                          !.path = PostProcessed(srch.result).path,
                          !.processed = PostProcessed(srch.result).processed,
                          !.entry = rec.entry + 1,
                          !.goal = IF rec.no \/ rec.target = -1
                                     THEN "goal" ELSE "interim"]
            /\ resume' = IF rec.no THEN resume
                         ELSE << [path |-> perf.path,
                                  processed |-> perf.processed,
                                  ind |-> rec.ind,
                                  pre |-> rec.pre, first |-> rec.first,
                                  entry |-> rec.entry] >>
            /\ hist' = LET h == [hist EXCEPT !.stale =
                                   IF @ = "none" \/ rec.no THEN "none"
                                                           ELSE "nested"]
                       IN IF rec.no THEN Exited(h, rec.entry) ELSE h
  /\ UNCHANGED << opts, taskDone, pf, ex, mv, cI, controls, thrown, hold, fatal,
                  calls, goal, fn >>

\* goto after perform returned: lines 578-597.
GotoAfterPerform ==
  /\ pc = "goto_after"
  /\ IF opts.errorOnAbort /\ pf.abortCalculation
       THEN /\ Reject("goalCanceled")
            /\ UNCHANGED << controls, ex, goal, calls >>
     ELSE IF opts.errorOnReset /\ pf.resetReason # NoReason
       THEN /\ Reject("recalculation")
            /\ UNCHANGED << controls, ex, goal, calls >>
     ELSE /\ CleanupBot
          /\ calls' = Returned(calls)
          /\ goal' = IF pf.resetReason = NoReason
                       THEN SetupWait(CleanupCallback(goal))
                       ELSE CleanupCallback(goal)
          /\ pc' = "goto_loop_end"
          /\ UNCHANGED << fatal, opts, perf, resume >>
  /\ UNCHANGED << taskDone, pf, srch, mv, cI, thrown, hold, rec, hist, fn >>

\* The test of goto's inner do-while (line 599): on another round setupWait()
\* (line 569); on exit cleanupBot(), manualCleanup() (line 612) and
\* cleanupAll() up to its await of goal.onFinish (lines 601-811), which for a
\* dynamic goal begins with goal.cleanup() (lines 806-808).  The goal is not
\* one that never finishes (doForever is false).
GotoLoopEnd ==
  /\ pc = "goto_loop_end"
  /\ IF pf.resetReason # NoReason /\ ~pf.abortCalculation /\ ~pf.userAborted
       THEN /\ pc' = "search_begin"
            /\ goal' = SetupWait(goal)
            /\ UNCHANGED << controls, ex, calls >>
       ELSE /\ CleanupBot
            /\ calls' = Returned(calls)
            /\ goal' = IF goal.dynamic
                         THEN CleanupCallback(CleanupCallback(goal))
                         ELSE CleanupCallback(goal)
            /\ pc' = IF pf.currentExecutor # "none" /\ ~pf.abortCalculation
                       THEN "on_finish" ELSE "cleanup_end"
  /\ srch' = NoSrch
  /\ UNCHANGED << opts, taskDone, pf, perf, mv, cI, thrown, hold, rec,
                  resume, fatal, hist, fn >>

\* goal.onFinish(lastMove) returns.
OnFinish ==
  /\ pc = "on_finish"
  /\ pc' = "cleanup_end"
  /\ UNCHANGED << opts, taskDone, pf, ex, srch, perf, mv, cI, controls, thrown,
                  hold, rec, resume, fatal, hist, calls, goal, fn >>

\* The rest of cleanupAll (lines 812-825); goto returns.  executeTask.finish()
\* resolves the promise the other calls await.
CleanupAllEnd ==
  /\ pc = "cleanup_end"
  /\ CleanupBot
  /\ pf' = CleanupClient
  /\ taskDone' = TRUE
  /\ opts' = NoOpts
  /\ hist' = FreshHist
  /\ pc' = "idle"
  /\ calls' = [Returned(calls) EXCEPT
                !.null = IF @ = "task" THEN "cleanup" ELSE @,
                !.waiting = IF @ = "task" THEN "ready" ELSE @,
                !.later = IF @ = "task" THEN "ready" ELSE @]
  /\ UNCHANGED << srch, perf, mv, cI, thrown, hold, rec, resume, fatal, goal,
                  fn >>

(* ---------------------------- perform ---------------------------------- *)
\* perform(path, goal, entry): line 647 and the initialisation of the loop.
PerformEnter ==
  /\ pc = "perform_enter"
  /\ IF perf.entry > RetryCeiling
       THEN Reject("tooManyFailures")
       ELSE /\ pc' = "loop"
            /\ UNCHANGED << fatal, opts, perf, resume >>
  /\ UNCHANGED << taskDone, pf, ex, srch, mv, cI, controls, thrown, hold, rec,
                  hist, calls, goal, fn >>

\* A loop that may end at any index.
PerformLoopExitAnywhere ==
  /\ pc = "loop"
  /\ pc' = "perform_ret"
  /\ UNCHANGED << opts, taskDone, pf, ex, srch, perf, mv, cI, controls, thrown,
                  hold, rec, resume, fatal, hist, calls, goal, fn >>

\* The loop test of perform with the loop over: perform returns.
PerformLoopExit ==
  /\ pc = "loop"
  /\ perf.currentIndex >= Len(perf.path)
  /\ pc' = "perform_ret"
  /\ UNCHANGED << opts, taskDone, pf, ex, srch, perf, mv, cI, controls, thrown,
                  hold, rec, resume, fatal, hist, calls, goal, fn >>

\* toBreakLen() / toPlaceLen() of a loaded move with n break (place) intents:
\* how many of them are still outstanding.
Outstanding(n) == 0 .. n

\* A completion predicate that looks at the physics alone.
IsCompletePhysicsOnly(breaksLeft, placesLeft, interaction, allowExit, physics) ==
  physics

\* MovementExecutor.isComplete(move): the early returns of lines 288-293,
\* then the physics test of lines 295-399 (physics: its answer).
\* interaction: the executor's cI; allowExit: cI.allowExit.
IsComplete(breaksLeft, placesLeft, interaction, allowExit, physics) ==
  IF breaksLeft > 0 THEN FALSE
  ELSE IF placesLeft > 0 THEN FALSE
  ELSE IF interaction # "none" /\ ~allowExit THEN FALSE
  ELSE physics

\* MovementExecutor.isAlreadyCompleted(move, tickCount, goal).
IsAlreadyCompleted(breaksLeft, placesLeft, interaction, allowExit, physics) ==
  IsComplete(breaksLeft, placesLeft, interaction, allowExit, physics)

\* The head of one iteration (lines 654-676): executor lookup, cleanupBot(),
\* loadMove(), isAlreadyCompleted().  hasExec: the lookup found an executor;
\* nb, np: the intents of the move; already: isAlreadyCompleted's answer,
\* one it can give for some outstanding intents, cI.allowExit and physics.
\* A loop that goes on with the same move after isAlreadyCompleted.
SameIndex(currentIndex) == currentIndex

\* currentIndex++ of line 674, before the continue.
SkipIndex(currentIndex) == currentIndex + 1

BeginMove(hasExec, nb, np, already) ==
  /\ pc = "loop"
  /\ perf.currentIndex < Len(perf.path)
  /\ IF ~hasExec
       THEN /\ Reject("noExecutor")
            /\ UNCHANGED << pf, controls, ex, mv, hist, calls >>
       ELSE /\ pf' = [pf EXCEPT !.currentExecutor = "move",
                                !.executingPath = TRUE]
            /\ CleanupBot
            /\ calls' = Returned(calls)
            /\ UNCHANGED << fatal, opts, resume >>
            /\ \E bl \in Outstanding(nb), pl \in Outstanding(np),
                  ae, ph \in BOOLEAN :
                 /\ already = IsAlreadyCompleted(bl, pl, cI, ae, ph)
                 /\ IF already
                      THEN /\ perf' = [perf EXCEPT
                                         !.tickCount = 0,
                                         !.currentIndex = SkipIndex(@)]
                           /\ mv' = NoMv
                           /\ pc' = "loop"
                           /\ hist' = [hist EXCEPT
                                         !.ceilingHit = FALSE,
                                         !.own = FALSE,
                                         !.inits = 0,
                                         !.skipped =
                                            IF Watch("skip")
                                              THEN << [breaks |-> bl,
                                                       places |-> pl,
                                                       cI |-> cI,
                                                       allowExit |-> ae] >>
                                              ELSE << >>]
                      ELSE /\ perf' = [perf EXCEPT !.tickCount = 0]
                           /\ mv' = [toBreak |-> nb, toPlace |-> np]
                           /\ pc' = "align"
                           /\ hist' = [hist EXCEPT
                                         !.own = FALSE,
                                         !.skipped = << >>,
                                         !.afterCancel =
                                            IF hist.cancelReq THEN "move" ELSE @,
                                         !.stale =
                                            IF @ = "req" THEN "begun" ELSE @]
  /\ UNCHANGED << taskDone, srch, cI, thrown, hold, rec, goal, fn >>

\* One pass of the align loop (lines 694-699): executor.align() answers res
\* and may set controls (c); then the loop test, check(), or _performInit
\* (line 702).
Align(res, c) ==
  /\ pc = "align"
  /\ controls' = (controls \/ c)
  /\ LET t == perf.tickCount + 1 IN
       IF res \in {"cancel", "error"}
         THEN /\ Throw(res, "exec")
              /\ hold' = hold
              /\ hist' = [hist EXCEPT !.ceilingHit = FALSE]
       ELSE IF res = "false" /\ t < TickCeiling
         THEN /\ IF Check # "none"
                   THEN Throw(Check, "check")
                   ELSE /\ pc' = "align_wait"
                        /\ perf' = [perf EXCEPT !.tickCount = t]
                        /\ UNCHANGED << thrown, mv >>
              /\ hold' = hold
              /\ hist' = [hist EXCEPT !.ceilingHit = FALSE]
       ELSE /\ perf' = [perf EXCEPT !.tickCount = 0]
            /\ hist' = [hist EXCEPT
                          !.ceilingHit = FALSE,
                          !.alignFailed = (Watch("ticks") /\ res = "false"),
                          !.inits = IF Watch("ticks") THEN Min(@ + 1, 2) ELSE @]
            /\ CallHeld("init", "init_run")
            /\ UNCHANGED << thrown, mv >>
  /\ UNCHANGED << opts, taskDone, pf, ex, srch, cI, rec, resume, fatal,
                  calls, goal, fn >>

\* await this.bot.waitForTicks(1) of the align loop (line 696).
AlignTick ==
  /\ pc = "align_wait"
  /\ pc' = "align"
  /\ UNCHANGED << opts, taskDone, pf, ex, srch, perf, mv, cI, controls, thrown,
                  hold, rec, resume, fatal, hist, calls, goal, fn >>

\* performInit() ends with res, may have set controls (c); then check() and
\* the first _performPerTick(move, tickCount++) (lines 702-705).
InitDone(res, c) ==
  /\ pc = "init_run"
  /\ controls' = (controls \/ c)
  /\ IF res \in {"cancel", "error"}
       THEN /\ Throw(res, "exec")
            /\ hold' = hold
            /\ hist' = [hist EXCEPT !.alignFailed = FALSE]
     ELSE IF Check # "none"
       THEN /\ Throw(Check, "check")
            /\ hold' = hold
            /\ hist' = [hist EXCEPT !.alignFailed = FALSE]
     ELSE /\ perf' = [perf EXCEPT !.tickCount = @ + 1]
          /\ CallHeld("tick", "tick_run")
          /\ UNCHANGED << thrown, mv, hist >>
  /\ UNCHANGED << opts, taskDone, pf, ex, srch, cI, rec, resume, fatal,
                  calls, goal, fn >>

\* performPerTick() ends: it throws (th) or returns res (0 for false, else the
\* number added), and may have set controls (c); then the loop test and the
\* addition of lines 707-713.
TickDone(th, res, c) ==
  /\ pc = "tick_run"
  /\ controls' = (controls \/ c)
  /\ IF th # "none"
       THEN /\ Throw(th, "exec")
            /\ hist' = [hist EXCEPT !.alignFailed = FALSE]
     ELSE IF res = 0 /\ perf.tickCount < TickCeiling
       THEN /\ IF Check # "none"
                 THEN Throw(Check, "check")
                 ELSE /\ pc' = "tick_wait"
                      /\ UNCHANGED << thrown, perf, mv >>
            /\ hist' = [hist EXCEPT !.alignFailed = FALSE]
     ELSE /\ perf' = [perf EXCEPT !.currentIndex = @ + res, !.tickCount = 0]
          /\ mv' = NoMv
          /\ hist' = [hist EXCEPT !.alignFailed = FALSE,
                                  !.ceilingHit = (Watch("ticks") /\ res = 0),
                                  !.inits = IF res = 0 THEN @ ELSE 0]
          /\ pc' = "loop"
          /\ thrown' = thrown
  /\ UNCHANGED << opts, taskDone, pf, ex, srch, cI, hold, rec, resume, fatal,
                  calls, goal, fn >>

\* await this.bot.waitForTicks(1) of the per-tick loop, then the next
\* _performPerTick(move, tickCount++) (lines 709-710).
TickWait ==
  /\ pc = "tick_wait"
  /\ perf' = [perf EXCEPT !.tickCount = @ + 1]
  /\ CallHeld("tick", "tick_run")
  /\ UNCHANGED << opts, taskDone, pf, ex, srch, mv, cI, controls, thrown, rec,
                  resume, fatal, hist, calls, goal, fn >>

\* The catch block of perform (lines 715-729) for every error but a
\* CancelError.
Catch ==
  /\ pc = "catch"
  /\ thrown.kind # "cancel"
  /\ thrown' = NoThrown
  /\ hold' = NoHold
  /\ hist' = [hist EXCEPT !.alignFailed = FALSE, !.inits = 0]
  /\ IF thrown.kind = "abort"
       THEN /\ ex' = NoEx
            /\ calls' = Returned(calls)
            /\ pf' = [pf EXCEPT !.resetReason = NoReason]
            /\ pc' = "perform_ret"
            /\ UNCHANGED << fatal, opts, perf, resume >>
     ELSE IF thrown.kind = "reset"
       THEN /\ ex' = NoEx
            /\ calls' = Returned(calls)
            /\ pf' = pf
            /\ pc' = "perform_ret"
            /\ UNCHANGED << fatal, opts, perf, resume >>
     ELSE /\ Reject(IF thrown.from = "hold" THEN "abortTimeout"
                                            ELSE "moveError")
          /\ UNCHANGED << ex, pf, calls >>
  /\ UNCHANGED << taskDone, srch, mv, cI, controls, rec, goal, fn >>

\* perform returns: into the tail of a short-replan recovery (lines 777-780:
\* splice, then perform(path, goal, 0)) if one is pending, else into goto.
PerformReturn ==
  /\ pc = "perform_ret"
  /\ IF resume # << >>
       THEN /\ perf' = [NoPerf EXCEPT
                          !.path = SpliceFront(resume[1].path,
                                               resume[1].ind + 1),
                          !.processed = resume[1].processed]
            /\ resume' = << >>
            /\ hist' = Exited([hist EXCEPT
                          !.resumed =
                             IF Watch("resume")
                               THEN << [pre |-> resume[1].pre,
                                        ind |-> resume[1].ind,
                                        first |-> resume[1].first] >>
                               ELSE << >>,
                          !.stale = IF @ = "nested" THEN "req" ELSE @],
                        resume[1].entry)
            /\ pc' = "perform_enter"
       ELSE /\ perf' = NoPerf
            /\ resume' = resume
            /\ hist' = [hist EXCEPT !.recCount = 0, !.resumed = << >>,
                                    !.stale = "none"]
            /\ pc' = "goto_after"
  /\ UNCHANGED << opts, taskDone, pf, ex, srch, mv, cI, controls, thrown, hold,
                  rec, fatal, calls, goal, fn >>

(* ---------------------------- recovery --------------------------------- *)
\* A catch block without the CancelError branch: perform returns.
RecoveryDeclined(d) ==
  /\ pc = "catch"
  /\ thrown.kind = "cancel"
  /\ thrown' = NoThrown
  /\ hold' = NoHold
  /\ pc' = "perform_ret"
  /\ UNCHANGED << opts, taskDone, pf, ex, srch, perf, mv, cI, controls, rec,
                  resume, fatal, hist, calls, goal, fn >>

\* The CancelError branch of the catch block (line 726) and recovery(move,
\* path, goal, entry) up to its call of getPathFromToRaw (lines 735-762).
\* d: the distance of each move's entryPos to the bot.
RecoveryEnter(d) ==
  /\ pc = "catch"
  /\ thrown.kind = "cancel"
  /\ thrown' = NoThrown
  /\ hold' = NoHold
  /\ CleanupBot
  /\ calls' = Returned(calls)
  /\ pf' = CleanupClient
  /\ LET move == perf.path[perf.currentIndex + 1]
         ind == IndexOf(perf.path, move)
         sorted == SortByDist(perf.path, d)
         first == IF sorted = << >> THEN -1 ELSE sorted[1]
         bad == first = -1 \/ IndexOf(sorted, first) < ind
         nextMove == IF ~bad /\ IndexOf(sorted, first) = ind
                       THEN IF ind + 2 <= Len(sorted) THEN sorted[ind + 2]
                                                      ELSE -1
                       ELSE first
         no == perf.entry > 0 \/ bad
     IN /\ hist' = Entered([hist EXCEPT
                      !.alignFailed = FALSE,
                      !.inits = 0,
                      !.recCount = IF Watch("count")
                                     THEN Min(@ + 1, RetryCeiling + 2) ELSE @,
                      !.afterCancel = IF hist.cancelReq THEN "recovery" ELSE @,
                      !.resumed = << >>], perf.entry)
        /\ IF ind = -1
             THEN /\ pc' = "perform_ret"
                  /\ UNCHANGED << perf, rec, srch >>
             ELSE /\ perf' = [perf EXCEPT !.path = sorted]
                  /\ rec' = [ind |-> ind, no |-> no, target |-> nextMove,
                             first |-> first, pre |-> perf.path,
                             entry |-> perf.entry]
                  /\ srch' = [NoSrch EXCEPT !.for = "recovery"]
                  /\ pc' = "search_begin"
  /\ UNCHANGED << opts, taskDone, mv, cI, resume, fatal, goal, fn >>

\* getPathFromToRaw returned null (lines 764-766): recovery returns, and
\* with it the perform that called it.
RecoveryNoPath ==
  /\ pc = "rec_null"
  /\ pc' = "perform_ret"
  /\ rec' = NoRec
  /\ srch' = NoSrch
  /\ hist' = Exited(hist, rec.entry)
  /\ UNCHANGED << opts, taskDone, pf, ex, perf, mv, cI, controls, thrown, hold,
                  resume, fatal, calls, goal, fn >>

(* ------------------ what happens while goto is suspended --------------- *)
\* The awaits of a move's execution at which the call chain is suspended.
MovePcs == {"align_wait", "init_run", "tick_run", "tick_wait",
            "hold_breaks", "hold_places", "hold_wait"}

\* The awaits at which the call chain is suspended and other handlers run.
Suspended == pc \in MovePcs \cup {"search_wait", "post", "on_finish"}

\* MovementExecutor.abort(move, {reason}) up to its await (lines 160-169);
\* the start executor of getPathFromTo is a fresh object of its own.
ExecAbort(reason) ==
  IF pf.currentExecutor = "move" /\ ~Flagged
    THEN [aborted |-> TRUE, resetReason |-> reason]
    ELSE ex

\* interrupt(timeout, cancelCalculation, reasonStr) up to its await.
Interrupt(cancelCalculation, reason) ==
  IF ~pf.hasProducer
    THEN UNCHANGED ex
    ELSE IF pf.currentExecutor = "none"
      THEN UNCHANGED ex
      ELSE ex' = ExecAbort(reason)

\* pf after interrupt(timeout, cancelCalculation, reasonStr).
InterruptPf(p, cancelCalculation, reason) ==
  IF ~p.hasProducer THEN p
  ELSE IF p.currentExecutor = "none"
    THEN [p EXCEPT !.abortCalculation = cancelCalculation]
    ELSE [p EXCEPT !.abortCalculation = cancelCalculation,
                   !.resetReason = reason,
                   !.startAborted = @ \/ p.currentExecutor = "idle"]

\* Where a call of interrupt() comes to wait (lines 204-217 and abort(),
\* part_000 lines 160-169): nowhere ("done") if there is no producer or no
\* executor or the executor is flagged already; else on the task of the
\* executor, which only reset() of that executor finishes.  The start
\* executor of getPathFromTo ("start") is in no collection reset() is called
\* on.
Awaits(p) ==
  IF ~p.hasProducer \/ p.currentExecutor = "none" THEN "done"
  ELSE IF p.currentExecutor = "idle"
    THEN IF p.startAborted THEN "done" ELSE "start"
  ELSE IF Flagged THEN "done" ELSE "move"

\* cancel(), called by the user while goto is suspended (lines 188-191).
Cancel ==
  /\ Suspended
  /\ pf' = InterruptPf([pf EXCEPT !.userAborted = TRUE], TRUE, NoReason)
  /\ Interrupt(TRUE, NoReason)
  /\ hist' = [hist EXCEPT
                !.cancelReq = @ \/ (Watch("cancel") /\ pc \in MovePcs),
                !.afterFlag = IF Watch("search") /\ pc = "search_wait" /\ @ = -1
                                THEN 0 ELSE @]
  /\ UNCHANGED << pc, opts, taskDone, srch, perf, mv, cI, controls, thrown,
                  hold, rec, resume, fatal, calls, goal, fn >>

\* reset(reason), called by a listener or the user while goto is suspended
\* (lines 222-225).
Reset(reason) ==
  /\ Suspended
  /\ pf' = InterruptPf(pf, FALSE, reason)
  /\ Interrupt(FALSE, reason)
  /\ hist' = [hist EXCEPT
                !.resetReq = @ \/ (Watch("reset") /\ pc \in MovePcs),
                !.stale = IF Watch("stale") /\ pc \in MovePcs /\ @ = "none"
                            THEN "req" ELSE @]
  /\ UNCHANGED << pc, opts, taskDone, srch, perf, mv, cI, controls, thrown,
                  hold, rec, resume, fatal, calls, goal, fn >>

\* cancel() as in Cancel, the call being followed until it returns.
CancelCall ==
  /\ Suspended
  /\ calls.cancel = "none"
  /\ pf' = InterruptPf([pf EXCEPT !.userAborted = TRUE], TRUE, NoReason)
  /\ Interrupt(TRUE, NoReason)
  /\ calls' = [calls EXCEPT !.cancel = Awaits(pf)]
  /\ UNCHANGED << pc, opts, taskDone, srch, perf, mv, cI, controls, thrown,
                  hold, rec, resume, fatal, hist, goal, fn >>

\* reset(reason) as in Reset, the call being followed until it returns.
ResetCall(reason) ==
  /\ Suspended
  /\ calls.cancel = "none"
  /\ pf' = InterruptPf(pf, FALSE, reason)
  /\ Interrupt(FALSE, reason)
  /\ calls' = [calls EXCEPT !.cancel = Awaits(pf)]
  /\ UNCHANGED << pc, opts, taskDone, srch, perf, mv, cI, controls, thrown,
                  hold, rec, resume, fatal, hist, goal, fn >>

\* performInit / performPerTick starts an interaction of the move
\* (performInteraction sets _cI).
StartInteraction(kind) ==
  /\ pc \in {"init_run", "tick_run"}
  /\ cI = "none"
  /\ IF kind = "break" THEN mv.toBreak > 0 ELSE mv.toPlace > 0
  /\ cI' = kind
  /\ hist' = [hist EXCEPT !.own = Watch("reset")]
  /\ UNCHANGED << pc, opts, taskDone, pf, ex, srch, perf, mv, controls, thrown,
                  hold, rec, resume, fatal, calls, goal, fn >>

\* The interaction in flight ends (performPlace / performBreak clear _cI).
InteractionDone ==
  /\ Suspended
  /\ cI # "none"
  /\ cI' = "none"
  /\ hist' = [hist EXCEPT !.own = FALSE]
  /\ UNCHANGED << pc, opts, taskDone, pf, ex, srch, perf, mv, controls, thrown,
                  hold, rec, resume, fatal, calls, goal, fn >>

(* ------------------- goto calls while a goto runs ---------------------- *)
\* goto(null) while a goto runs and nobody else waits (lines 522-524):
\* cancel(), then the await of the promise of the running task.
GotoNull ==
  /\ Suspended
  /\ ~taskDone
  /\ calls = NoCalls
  /\ pf' = InterruptPf([pf EXCEPT !.userAborted = TRUE], TRUE, NoReason)
  /\ Interrupt(TRUE, NoReason)
  /\ calls' = [calls EXCEPT
                !.null = IF Awaits(pf) = "start" THEN "abort" ELSE "task"]
  /\ UNCHANGED << pc, opts, taskDone, srch, perf, mv, cI, controls, thrown,
                  hold, rec, resume, fatal, hist, goal, fn >>

\* goto(goal) while the task of the running goto is not done (lines 529-533):
\* wantedGoal is set, cancel(), then the await of the promise of the task.
GotoWaiting ==
  /\ Suspended
  /\ ~taskDone
  /\ calls.waiting = "none"
  /\ pf' = InterruptPf([pf EXCEPT !.userAborted = TRUE], TRUE, NoReason)
  /\ Interrupt(TRUE, NoReason)
  /\ calls' = [calls EXCEPT
                !.waiting = IF Awaits(pf) = "start" THEN "abort" ELSE "task",
                !.wanted = "waiting"]
  /\ UNCHANGED << pc, opts, taskDone, srch, perf, mv, cI, controls, thrown,
                  hold, rec, resume, fatal, hist, goal, fn >>

\* The waiting goto goes on once the promise has resolved: wantedGoal is still
\* its goal (line 534), and it starts its own chain (lines 535-541).
WaiterStart ==
  /\ calls.waiting = "ready"
  /\ calls.wanted = "waiting"
  /\ pc = "idle"
  /\ opts' = NoOpts
  /\ pf' = CleanupClient
  /\ taskDone' = FALSE
  /\ srch' = NoSrch
  /\ hist' = FreshHist
  /\ pc' = "search_begin"
  /\ calls' = [calls EXCEPT !.waiting = "none", !.wanted = "none"]
  /\ goal' = NoGoal
  /\ UNCHANGED << ex, perf, mv, cI, controls, thrown, hold, rec, resume, fatal,
                  fn >>

\* The waiting goto goes on once the promise has resolved and finds another
\* goal in wantedGoal: it returns (line 534).
WaiterReturn ==
  /\ calls.waiting = "ready"
  /\ calls.wanted # "waiting"
  /\ calls' = [calls EXCEPT !.waiting = "returned"]
  /\ UNCHANGED << pc, opts, taskDone, pf, ex, srch, perf, mv, cI, controls,
                  thrown, hold, rec, resume, fatal, hist, goal, fn >>

\* A further goto(goal) while the task is not done and a goto waits already
\* (lines 529-533): wantedGoal becomes its goal.
GotoLater ==
  /\ Suspended
  /\ ~taskDone
  /\ calls.waiting \in {"abort", "task"}
  /\ calls.later = "none"
  /\ pf' = InterruptPf([pf EXCEPT !.userAborted = TRUE], TRUE, NoReason)
  /\ Interrupt(TRUE, NoReason)
  /\ calls' = [calls EXCEPT
                !.later = IF Awaits(pf) = "start" THEN "abort" ELSE "task",
                !.wanted = "later"]
  /\ UNCHANGED << pc, opts, taskDone, srch, perf, mv, cI, controls, thrown,
                  hold, rec, resume, fatal, hist, goal, fn >>

\* That goto goes on once the promise has resolved: no goto was issued after
\* it, so wantedGoal is its goal (line 534), and it starts its own chain
\* (lines 535-541).
LaterStart ==
  /\ calls.later = "ready"
  /\ calls.wanted = "later"
  /\ pc = "idle"
  /\ opts' = NoOpts
  /\ pf' = CleanupClient
  /\ taskDone' = FALSE
  /\ srch' = NoSrch
  /\ hist' = FreshHist
  /\ pc' = "search_begin"
  /\ calls' = [calls EXCEPT !.later = "started", !.wanted = "none"]
  /\ goal' = NoGoal
  /\ UNCHANGED << ex, perf, mv, cI, controls, thrown, hold, rec, resume, fatal,
                  fn >>

\* Where the chain is when the continuation of goto(null) runs, both having
\* been woken by the same finish(): nowhere (no goto waited), or suspended
\* after the first advance() of its search.
NullResumes ==
  IF calls.waiting = "ready" THEN FALSE
  ELSE \/ pc = "idle"
       \/ /\ pc \in {"search_wait", "post"}
          /\ srch.producer.computed = 1

\* goto(null) after the promise resolved: cleanupAll(null, undefined), lines
\* 525 and 805-825.  currentExecutor was deleted by the cleanupClient() of the
\* goto that finished, so onFinish is not called; finish() is called on the
\* task that is in executeTask now.
NullCleanupEnd ==
  /\ calls.null = "cleanup"
  /\ NullResumes
  /\ CleanupBot
  /\ pf' = CleanupClient
  /\ taskDone' = TRUE
  /\ calls' = [Returned(calls) EXCEPT !.null = "none"]
  /\ UNCHANGED << pc, opts, srch, perf, mv, cI, thrown, hold, rec, resume,
                  fatal, hist, goal, fn >>

\* goto(goal) while a goto runs whose task is done: the test of line 529
\* passes, and the call runs lines 538-541 and getPathFromTo up to its first
\* suspension (lines 446-459).  The model does not follow this call further.
GotoOther ==
  /\ Suspended
  /\ taskDone
  /\ calls.other = "none"
  /\ pf' = [CleanupClient EXCEPT !.currentExecutor = "idle",
                                 !.hasProducer = TRUE]
  /\ taskDone' = FALSE
  /\ calls' = [calls EXCEPT !.other = "pathing"]
  /\ UNCHANGED << pc, opts, ex, srch, perf, mv, cI, controls, thrown, hold,
                  rec, resume, fatal, hist, goal, fn >>

(* -------------------- the blockUpdate listener ------------------------- *)
\* isPositionNearPath(pos, this.currentExecutingPath) (lines 259-285).
\* near: some move of the path has pos within the box of lines 274-279 around
\* its segment; own: pos is a planned break or place position of the path.
IsPositionNearPath(executingPath, near, own) ==
  executingPath /\ near /\ ~own

\* The blockUpdate listener (lines 229-237) for an update with both blocks
\* known.  changed: oldblock.type !== newBlock.type.  The bot emits the event
\* between the steps of the chain, whether a goto runs or not.
BlockUpdate(changed, near, own) ==
  /\ Suspended \/ pc \in {"idle", "threw"}
  /\ LET resets == IsPositionNearPath(pf.executingPath, near, own) /\ changed
     IN /\ IF resets
             THEN /\ pf' = InterruptPf(pf, FALSE, "blockUpdate")
                  /\ Interrupt(FALSE, "blockUpdate")
             ELSE UNCHANGED << pf, ex >>
        /\ hist' = [hist EXCEPT
                      !.update = IF Watch("update")
                                   THEN [reset |-> resets, changed |-> changed,
                                         near |-> near, own |-> own,
                                         executing |-> pc \in MovePcs]
                                   ELSE @]
  /\ UNCHANGED << pc, opts, taskDone, srch, perf, mv, cI, controls, thrown,
                  hold, rec, resume, fatal, calls, goal, fn >>

(* ------------------ the listeners of a dynamic goal -------------------- *)
\* A listener of the current registration runs (lines 421-437) on an event
\* the goal takes for an update (kind "update", goal._hasChanged) or for the
\* end of its validity (kind "invalid", goal.isValid).  With userAborted set
\* it runs the cleanup callback; else onHasUpdate calls reset('goalUpdated')
\* (line 553) or onInvalid calls cancel() (line 556), and the listeners are
\* taken off the bot (lines 384-407).
GoalEvent(kind) ==
  /\ Suspended
  /\ goal.cur.active
  /\ IF pf.userAborted
       THEN /\ goal' = CleanupCallback(goal)
            /\ UNCHANGED << pf, ex >>
       ELSE /\ goal' = [goal EXCEPT !.cur.active = FALSE]
            /\ IF kind = "update"
                 THEN /\ pf' = InterruptPf(pf, FALSE, "goalUpdated")
                      /\ Interrupt(FALSE, "goalUpdated")
                 ELSE /\ pf' = InterruptPf([pf EXCEPT !.userAborted = TRUE],
                                           TRUE, NoReason)
                      /\ Interrupt(TRUE, NoReason)
  /\ UNCHANGED << pc, opts, taskDone, srch, perf, mv, cI, controls, thrown,
                  hold, rec, resume, fatal, hist, calls, fn >>

(* ----------------- MovementExecutor.interactPossible ------------------- *)
\* The estimate of an interaction that cannot be performed.
Infinity == MaxTicks + 1

\* An intent of the current move: whether it is done, and the ticks it would
\* take from where the bot is.
Intents == [done : BOOLEAN, needs : 1 .. Infinity]

\* The intents of one kind a move carries.
IntentLists == UNION {[1 .. n -> Intents] : n \in 0 .. MaxIntents}

\* The values of _cI: no interaction, or the intent of the given kind and
\* index of the current move.
CurrentOf(toBreak, toPlace) ==
  {<< "none", 0 >>} \cup {<< "break", i >> : i \in DOMAIN toBreak}
                    \cup {<< "place", i >> : i \in DOMAIN toPlace}

\* performInfo(bot, ticks) of an interaction: res.ticks, the estimate when the
\* interaction can be performed within the budget, Infinity when not.
PerformInfo(intent, ticks) ==
  IF intent.needs <= ticks THEN intent.needs ELSE Infinity

\* The least index of the intents of kind k that are not _cI, not done and
\* for which performInfo gives a finite estimate; 0 if there is none.
FirstPossible(list, k, cur, ticks) ==
  LET ok == {i \in DOMAIN list :
               /\ << k, i >> # cur
               /\ ~list[i].done
               /\ PerformInfo(list[i], ticks) < Infinity}
  IN IF ok = {} THEN 0 ELSE CHOOSE i \in ok : \A j \in ok : i <= j

\* An executor that looks at the placements first.
InteractPossiblePlaceFirst(toBreak, toPlace, cur, ticks) ==
  IF FirstPossible(toPlace, "place", cur, ticks) # 0
    THEN << "place", FirstPossible(toPlace, "place", cur, ticks) >>
  ELSE IF FirstPossible(toBreak, "break", cur, ticks) # 0
    THEN << "break", FirstPossible(toBreak, "break", cur, ticks) >>
  ELSE << "none", 0 >>

\* interactPossible(ticks): the intent it returns, << "none", 0 >> for
\* undefined.  The breaks are gone through first, then the placements.
InteractPossible(toBreak, toPlace, cur, ticks) ==
  IF FirstPossible(toBreak, "break", cur, ticks) # 0
    THEN << "break", FirstPossible(toBreak, "break", cur, ticks) >>
  ELSE IF FirstPossible(toPlace, "place", cur, ticks) # 0
    THEN << "place", FirstPossible(toPlace, "place", cur, ticks) >>
  ELSE << "none", 0 >>

\* An executor asks for the next interaction of its move: every move with up
\* to MaxIntents intents of each kind, every _cI, every budget.
InitInteract ==
  /\ InitChain
  /\ \E toBreak \in IntentLists, toPlace \in IntentLists,
        ticks \in 1 .. MaxTicks :
       \E cur \in CurrentOf(toBreak, toPlace) :
         fn = [op |-> "interactPossible", returned |-> FALSE,
               toBreak |-> toBreak, toPlace |-> toPlace, cI |-> cur,
               ticks |-> ticks, result |-> << "none", 0 >>]

\* The call of interactPossible returns.
Interact ==
  /\ fn.op = "interactPossible"
  /\ ~fn.returned
  /\ fn' = [fn EXCEPT !.returned = TRUE,
                      !.result = InteractPossible(fn.toBreak, fn.toPlace,
                                                  fn.cI, fn.ticks)]
  /\ UNCHANGED chain

(* --------------- ForwardJumpMove.getMoveJumpUp (provider) -------------- *)
\* What getBlockInfo gives for the blocks C and D the provider may build on,
\* with the answer of safeToBreak for the block.
BuildBlocks ==
  [physical : BOOLEAN, replaceable : BOOLEAN, safeToBreak : BOOLEAN,
   height : {0, 5, 10}]

\* The blocks A, H and B the provider must have free: the cost safeOrBreak
\* charges for each (0: nothing to break).
Penalties == {0, 49, 98, 100}

\* safeOrBreak(block, toBreak): the penalty it returns and the break intents
\* after it; a block that costs something to clear is one it has to break.
SafeOrBreak(block, penalty, toBreak) ==
  [cost |-> penalty,
   toBreak |-> IF penalty > 0 THEN Append(toBreak, block) ELSE toBreak]

\* A provider that asks only whether any block is left.
LacksAny(remainingBlocks, needed) == remainingBlocks = 0

\* The tests of lines 894 and 900: the node has exactly the number of blocks
\* that is one too few (needed: the placements the candidate needs).
Lacks(remainingBlocks, needed) == remainingBlocks = needed - 1

\* A provider that drops no candidate for its cost.
OverNothing(cost) == FALSE

\* The test made after each of the three penalties (lines 930, 932, 934).
OverCeiling(cost) == cost > CostCeiling

\* getMoveJumpUp(node, dir, neighbors): the moves it appends to neighbors,
\* none or one.  b: the blocks around the node in direction dir (C, D: the
\* target and the block under it; block0: the height of the block under the
\* node; A, H, B: the penalties of the blocks to clear).
GetMoveJumpUp(node, b) ==
  LET needC == ~b.C.physical
      needD == needC /\ ~b.D.physical
      breakD == needD /\ ~b.D.replaceable
      breakC == needC /\ ~b.C.replaceable
      toBreak0 == (IF breakD THEN << "D" >> ELSE << >>)
                    \o (IF breakC THEN << "C" >> ELSE << >>)
      toPlace == (IF needD THEN << "D" >> ELSE << >>)
                   \o (IF needC THEN << "C" >> ELSE << >>)
      cHeight == b.C.height + (IF needC THEN BlockHeight ELSE 0)
      a == SafeOrBreak("A", b.A, toBreak0)
      h == SafeOrBreak("H", b.H, a.toBreak)
      bb == SafeOrBreak("B", b.B, h.toBreak)
      costA == MoveCost + a.cost
      costH == costA + h.cost
      costB == costH + bb.cost
  IN IF needC /\ Lacks(node.remainingBlocks, 1) THEN << >>
     ELSE IF needD /\ Lacks(node.remainingBlocks, 2) THEN << >>
     ELSE IF breakD /\ ~b.D.safeToBreak THEN << >>
     ELSE IF breakC /\ ~b.C.safeToBreak THEN << >>
     ELSE IF cHeight - b.block0 > JumpHeight THEN << >>
     ELSE IF OverCeiling(costA) THEN << >>
     ELSE IF OverCeiling(costH) THEN << >>
     ELSE IF OverCeiling(costB) THEN << >>
     ELSE << [cost |-> costB, toPlace |-> toPlace, toBreak |-> bb.toBreak] >>

\* The search expands a node in one direction: every world around it and
\* every remaining placeable count a node can have.
InitJumpUp ==
  /\ InitChain
  /\ \E remainingBlocks \in 0 .. MaxBlocks, C \in BuildBlocks,
        D \in [physical : BOOLEAN, replaceable : BOOLEAN,
               safeToBreak : BOOLEAN],
        block0 \in {5, 10}, A \in Penalties, H \in Penalties,
        B \in Penalties :
       fn = [op |-> "getMoveJumpUp", returned |-> FALSE,
             node |-> [remainingBlocks |-> remainingBlocks],
             blocks |-> [C |-> C, D |-> D, block0 |-> block0,
                         A |-> A, H |-> H, B |-> B],
             neighbors |-> << >>]

\* The call of getMoveJumpUp returns.
JumpUp ==
  /\ fn.op = "getMoveJumpUp"
  /\ ~fn.returned
  /\ fn' = [fn EXCEPT !.returned = TRUE,
                      !.neighbors = @ \o GetMoveJumpUp(fn.node, fn.blocks)]
  /\ UNCHANGED chain

(* ------------------------------ Next ----------------------------------- *)
Next ==
  \/ \E o \in PerformOpts : Goto(o, FALSE)
  \/ SearchBegin
  \/ \E st \in Statuses, n \in 1 .. MoveLen : SearchAdvance(st, n)
  \/ SearchTick
  \/ PostProcess
  \/ GotoAfterPerform
  \/ GotoLoopEnd
  \/ OnFinish
  \/ CleanupAllEnd
  \/ PerformEnter
  \/ PerformLoopExit
  \/ \E h, al \in BOOLEAN, nb, np \in 0 .. MaxIntents : BeginMove(h, nb, np, al)
  \/ \E res \in {"true", "false", "cancel", "error"}, c \in BOOLEAN :
       Align(res, c)
  \/ AlignTick
  \/ \E res \in {"ok", "cancel", "error"}, c \in BOOLEAN : InitDone(res, c)
  \/ \E th \in {"none", "cancel", "error"}, res \in 0 .. MaxAdd, c \in BOOLEAN :
       TickDone(th, res, c)
  \/ TickWait
  \/ Catch
  \/ PerformReturn
  \/ \E d \in [Moves -> 0 .. MaxDist] : RecoveryEnter(d)
  \/ RecoveryNoPath
  \/ HoldAbortBreak
  \/ HoldAbortPlace
  \/ \E isSafe \in BOOLEAN : HoldTick(isSafe)
  \/ HoldTimeout
  \/ Cancel
  \/ \E reason \in Reasons : Reset(reason)
  \/ \E kind \in {"break", "place"} : StartInteraction(kind)
  \/ InteractionDone

\* goto, perform and recovery with nobody calling cancel() or reset(): the
\* executor is never flagged and no hold point holds.
NextRecovery ==
  \/ Goto(NoOpts, FALSE)
  \/ SearchBegin
  \/ \E st \in Statuses, n \in 1 .. MaxLen : SearchAdvance(st, n)
  \/ SearchTick
  \/ PostProcess
  \/ GotoAfterPerform
  \/ GotoLoopEnd
  \/ OnFinish
  \/ CleanupAllEnd
  \/ PerformEnter
  \/ PerformLoopExit
  \/ \E h, al \in BOOLEAN : BeginMove(h, 0, 0, al)
  \/ \E res \in {"true", "false", "cancel", "error"} : Align(res, FALSE)
  \/ AlignTick
  \/ \E res \in {"ok", "cancel", "error"} : InitDone(res, FALSE)
  \/ \E th \in {"none", "cancel", "error"}, res \in 0 .. MaxAdd :
       TickDone(th, res, FALSE)
  \/ TickWait
  \/ Catch
  \/ PerformReturn
  \/ \E d \in [Moves -> 0 .. MaxDist] : RecoveryEnter(d)
  \/ RecoveryNoPath

\* goto with cancel(), reset() and the abort protocol, for callers that set no
\* performOpts and executors that set no control state.
NextHold ==
  \/ Goto(NoOpts, FALSE)
  \/ SearchBegin
  \/ \E st \in Statuses, n \in 1 .. MoveLen : SearchAdvance(st, n)
  \/ SearchTick
  \/ PostProcess
  \/ GotoAfterPerform
  \/ GotoLoopEnd
  \/ OnFinish
  \/ CleanupAllEnd
  \/ PerformEnter
  \/ PerformLoopExit
  \/ \E h, al \in BOOLEAN, nb, np \in 0 .. MaxIntents : BeginMove(h, nb, np, al)
  \/ \E res \in {"true", "false", "cancel", "error"} : Align(res, FALSE)
  \/ AlignTick
  \/ \E res \in {"ok", "cancel", "error"} : InitDone(res, FALSE)
  \/ \E th \in {"none", "cancel", "error"}, res \in 0 .. MaxAdd :
       TickDone(th, res, FALSE)
  \/ TickWait
  \/ Catch
  \/ PerformReturn
  \/ \E d \in [Moves -> 0 .. MaxDist] : RecoveryEnter(d)
  \/ RecoveryNoPath
  \/ HoldAbortBreak
  \/ HoldAbortPlace
  \/ \E isSafe \in BOOLEAN : HoldTick(isSafe)
  \/ HoldTimeout
  \/ Cancel
  \/ \E reason \in Reasons : Reset(reason)
  \/ \E kind \in {"break", "place"} : StartInteraction(kind)
  \/ InteractionDone

\* goto, perform and recovery on longer paths with reset() called by the
\* listeners; nobody calls cancel(), no move has intents.
NextReset ==
  \/ Goto(NoOpts, FALSE)
  \/ SearchBegin
  \/ \E st \in Statuses, n \in 1 .. MaxLen : SearchAdvance(st, n)
  \/ SearchTick
  \/ PostProcess
  \/ GotoAfterPerform
  \/ GotoLoopEnd
  \/ OnFinish
  \/ CleanupAllEnd
  \/ PerformEnter
  \/ PerformLoopExit
  \/ \E h, al \in BOOLEAN : BeginMove(h, 0, 0, al)
  \/ \E res \in {"true", "false", "cancel", "error"} : Align(res, FALSE)
  \/ AlignTick
  \/ \E res \in {"ok", "cancel", "error"} : InitDone(res, FALSE)
  \/ \E th \in {"none", "cancel", "error"}, res \in 0 .. MaxAdd :
       TickDone(th, res, FALSE)
  \/ TickWait
  \/ Catch
  \/ PerformReturn
  \/ \E d \in [Moves -> 0 .. MaxDist] : RecoveryEnter(d)
  \/ RecoveryNoPath
  \/ \E isSafe \in BOOLEAN : HoldTick(isSafe)
  \/ HoldTimeout
  \/ \E reason \in Reasons : Reset(reason)

\* goto, perform and recovery with moves that have intents and start
\* interactions; nobody calls cancel() or reset().
NextSkip ==
  \/ Goto(NoOpts, FALSE)
  \/ SearchBegin
  \/ \E st \in Statuses, n \in 1 .. MoveLen : SearchAdvance(st, n)
  \/ SearchTick
  \/ PostProcess
  \/ GotoAfterPerform
  \/ GotoLoopEnd
  \/ OnFinish
  \/ CleanupAllEnd
  \/ PerformEnter
  \/ PerformLoopExit
  \/ \E h, al \in BOOLEAN, nb, np \in 0 .. MaxIntents : BeginMove(h, nb, np, al)
  \/ \E res \in {"true", "false", "cancel", "error"} : Align(res, FALSE)
  \/ AlignTick
  \/ \E res \in {"ok", "cancel", "error"} : InitDone(res, FALSE)
  \/ \E th \in {"none", "cancel", "error"}, res \in 0 .. MaxAdd :
       TickDone(th, res, FALSE)
  \/ TickWait
  \/ Catch
  \/ PerformReturn
  \/ \E d \in [Moves -> 0 .. MaxDist] : RecoveryEnter(d)
  \/ RecoveryNoPath
  \/ \E kind \in {"break", "place"} : StartInteraction(kind)
  \/ InteractionDone

\* goto with cancel() and reset(), for callers that set no performOpts and
\* moves without intents.
NextSearch ==
  \/ Goto(NoOpts, FALSE)
  \/ SearchBegin
  \/ \E st \in Statuses, n \in 1 .. MoveLen : SearchAdvance(st, n)
  \/ SearchTick
  \/ PostProcess
  \/ GotoAfterPerform
  \/ GotoLoopEnd
  \/ OnFinish
  \/ CleanupAllEnd
  \/ PerformEnter
  \/ PerformLoopExit
  \/ \E h, al \in BOOLEAN : BeginMove(h, 0, 0, al)
  \/ \E res \in {"true", "false", "cancel", "error"} : Align(res, FALSE)
  \/ AlignTick
  \/ \E res \in {"ok", "cancel", "error"} : InitDone(res, FALSE)
  \/ \E th \in {"none", "cancel", "error"}, res \in 0 .. MaxAdd :
       TickDone(th, res, FALSE)
  \/ TickWait
  \/ Catch
  \/ PerformReturn
  \/ \E d \in [Moves -> 0 .. MaxDist] : RecoveryEnter(d)
  \/ RecoveryNoPath
  \/ \E isSafe \in BOOLEAN : HoldTick(isSafe)
  \/ HoldTimeout
  \/ Cancel
  \/ \E reason \in Reasons : Reset(reason)

Spec == Init /\ [][Next]_vars

SpecHold == InitWatching({"none"}) /\ [][NextHold]_vars

SpecRecovery == InitRecovery /\ [][NextRecovery]_vars

SpecReset == InitReset /\ [][NextReset]_vars

\* As SpecRecovery, the continuations of the running goto being fair: a
\* search, a move attempt and a tick wait that can go on do go on.
SpecTerminate ==
  /\ InitRecovery
  /\ [][NextRecovery]_vars
  /\ WF_vars(pc # "idle" /\ NextRecovery)

\* As SpecRecovery, with the history of the recovery events.
SpecEvents == InitEvents /\ [][NextRecovery]_vars

SpecSkip == InitSkip /\ [][NextSkip]_vars

SpecSearch == InitSearch /\ [][NextSearch]_vars

\* goto(null) and further goto(goal) calls while a goto runs; no performOpts,
\* moves without intents, no reset().
NextCalls ==
  \/ Goto(NoOpts, FALSE)
  \/ SearchBegin
  \/ \E st \in Statuses, n \in 1 .. MoveLen : SearchAdvance(st, n)
  \/ SearchTick
  \/ PostProcess
  \/ GotoAfterPerform
  \/ GotoLoopEnd
  \/ OnFinish
  \/ CleanupAllEnd
  \/ PerformEnter
  \/ PerformLoopExit
  \/ \E h, al \in BOOLEAN : BeginMove(h, 0, 0, al)
  \/ \E res \in {"true", "false", "cancel", "error"} : Align(res, FALSE)
  \/ AlignTick
  \/ \E res \in {"ok", "cancel", "error"} : InitDone(res, FALSE)
  \/ \E th \in {"none", "cancel", "error"}, res \in 0 .. MaxAdd :
       TickDone(th, res, FALSE)
  \/ TickWait
  \/ Catch
  \/ PerformReturn
  \/ \E d \in [Moves -> 0 .. MaxDist] : RecoveryEnter(d)
  \/ RecoveryNoPath
  \/ \E isSafe \in BOOLEAN : HoldTick(isSafe)
  \/ HoldTimeout
  \/ GotoNull
  \/ GotoWaiting
  \/ WaiterStart
  \/ NullCleanupEnd
  \/ GotoOther

SpecCalls == InitWatching({"none"}) /\ [][NextCalls]_vars

\* cancel(), reset() and further goto(goal) calls while a goto runs, one of the
\* calls being followed until it returns; moves without intents.
NextAbort ==
  \/ \E o \in PerformOpts : Goto(o, FALSE)
  \/ SearchBegin
  \/ \E st \in Statuses, n \in 1 .. MoveLen : SearchAdvance(st, n)
  \/ SearchTick
  \/ PostProcess
  \/ GotoAfterPerform
  \/ GotoLoopEnd
  \/ OnFinish
  \/ CleanupAllEnd
  \/ PerformEnter
  \/ PerformLoopExit
  \/ \E h, al \in BOOLEAN : BeginMove(h, 0, 0, al)
  \/ \E res \in {"true", "false", "cancel", "error"} : Align(res, FALSE)
  \/ AlignTick
  \/ \E res \in {"ok", "cancel", "error"} : InitDone(res, FALSE)
  \/ \E th \in {"none", "cancel", "error"}, res \in 0 .. MaxAdd :
       TickDone(th, res, FALSE)
  \/ TickWait
  \/ Catch
  \/ PerformReturn
  \/ \E d \in [Moves -> 0 .. MaxDist] : RecoveryEnter(d)
  \/ RecoveryNoPath
  \/ \E isSafe \in BOOLEAN : HoldTick(isSafe)
  \/ HoldTimeout
  \/ Cancel
  \/ \E reason \in Reasons : Reset(reason)
  \/ CancelCall
  \/ \E reason \in Reasons : ResetCall(reason)
  \/ GotoWaiting
  \/ WaiterStart
  \/ WaiterReturn
  \/ GotoLater
  \/ LaterStart

\* The steps the event loop takes by itself once they are possible: the
\* continuations of the goto chain, the ticks and the timers.  The calls of
\* the user and of the listeners are not among them.
ChainStep ==
  \/ SearchBegin
  \/ \E st \in Statuses, n \in 1 .. MoveLen : SearchAdvance(st, n)
  \/ SearchTick
  \/ PostProcess
  \/ GotoAfterPerform
  \/ GotoLoopEnd
  \/ OnFinish
  \/ CleanupAllEnd
  \/ PerformEnter
  \/ PerformLoopExit
  \/ \E h, al \in BOOLEAN : BeginMove(h, 0, 0, al)
  \/ \E res \in {"true", "false", "cancel", "error"} : Align(res, FALSE)
  \/ AlignTick
  \/ \E res \in {"ok", "cancel", "error"} : InitDone(res, FALSE)
  \/ \E th \in {"none", "cancel", "error"}, res \in 0 .. MaxAdd :
       TickDone(th, res, FALSE)
  \/ TickWait
  \/ Catch
  \/ PerformReturn
  \/ \E d \in [Moves -> 0 .. MaxDist] : RecoveryEnter(d)
  \/ RecoveryNoPath
  \/ \E isSafe \in BOOLEAN : HoldTick(isSafe)
  \/ HoldTimeout

\* The continuation of a goto that waited for the task, once the promise has
\* resolved.
CallStep ==
  \/ WaiterStart
  \/ WaiterReturn
  \/ LaterStart

SpecAbort ==
  /\ InitWatching({"none"})
  /\ [][NextAbort]_vars
  /\ WF_vars(ChainStep)
  /\ WF_vars(CallStep)

\* goto with a dynamic goal (one that finishes) and the listeners goto
\* registers for it; cancel() and reset(); no performOpts, moves without
\* intents.
NextWait ==
  \/ \E dynamic \in BOOLEAN : Goto(NoOpts, dynamic)
  \/ SearchBegin
  \/ \E st \in Statuses, n \in 1 .. MoveLen : SearchAdvance(st, n)
  \/ SearchTick
  \/ PostProcess
  \/ GotoAfterPerform
  \/ GotoLoopEnd
  \/ OnFinish
  \/ CleanupAllEnd
  \/ PerformEnter
  \/ PerformLoopExit
  \/ \E h, al \in BOOLEAN : BeginMove(h, 0, 0, al)
  \/ \E res \in {"true", "false", "cancel", "error"} : Align(res, FALSE)
  \/ AlignTick
  \/ \E res \in {"ok", "cancel", "error"} : InitDone(res, FALSE)
  \/ \E th \in {"none", "cancel", "error"}, res \in 0 .. MaxAdd :
       TickDone(th, res, FALSE)
  \/ TickWait
  \/ Catch
  \/ PerformReturn
  \/ \E d \in [Moves -> 0 .. MaxDist] : RecoveryEnter(d)
  \/ RecoveryNoPath
  \/ \E isSafe \in BOOLEAN : HoldTick(isSafe)
  \/ HoldTimeout
  \/ Cancel
  \/ \E reason \in Reasons : Reset(reason)
  \/ \E kind \in {"update", "invalid"} : GoalEvent(kind)

SpecWait == InitWatching({"none"}) /\ [][NextWait]_vars

\* goto, cancel() and the block updates of the world; no performOpts, moves
\* without intents.
NextUpdate ==
  \/ Goto(NoOpts, FALSE)
  \/ SearchBegin
  \/ \E st \in Statuses, n \in 1 .. MoveLen : SearchAdvance(st, n)
  \/ SearchTick
  \/ PostProcess
  \/ GotoAfterPerform
  \/ GotoLoopEnd
  \/ OnFinish
  \/ CleanupAllEnd
  \/ PerformEnter
  \/ PerformLoopExit
  \/ \E h, al \in BOOLEAN : BeginMove(h, 0, 0, al)
  \/ \E res \in {"true", "false", "cancel", "error"} : Align(res, FALSE)
  \/ AlignTick
  \/ \E res \in {"ok", "cancel", "error"} : InitDone(res, FALSE)
  \/ \E th \in {"none", "cancel", "error"}, res \in 0 .. MaxAdd :
       TickDone(th, res, FALSE)
  \/ TickWait
  \/ Catch
  \/ PerformReturn
  \/ \E d \in [Moves -> 0 .. MaxDist] : RecoveryEnter(d)
  \/ RecoveryNoPath
  \/ \E isSafe \in BOOLEAN : HoldTick(isSafe)
  \/ HoldTimeout
  \/ Cancel
  \/ \E changed, near, own \in BOOLEAN : BlockUpdate(changed, near, own)

SpecUpdate == InitUpdate /\ [][NextUpdate]_vars

\* One expansion by the jump-up provider.
NextJumpUp == JumpUp

SpecJumpUp == InitJumpUp /\ [][NextJumpUp]_vars

\* One call of interactPossible.
NextInteract == Interact

SpecInteract == InitInteract /\ [][NextInteract]_vars

(* ------------------------------ claims --------------------------------- *)
\* A recovery has decided its replan and the replan's search is about to start.
RecoveryDecided == pc = "search_begin" /\ srch.for = "recovery"

\* C1: once cancel() has been called while goto is executing a move, goto
\* starts no further move and enters no recovery, even if the move raises a
\* CancelError after the cancel was requested.
C1_CancelIsTerminal == hist.afterCancel = "none"

\* C2: when the move at index i fails first and the move nearest the agent is
\* at an index j > i, recovery replans to move j (a short replan), and the
\* path it resumes afterwards holds no move of index <= i.
C2_ResumesPastFailedMove ==
  /\ (RecoveryDecided /\ rec.entry = 0 /\ IndexOf(rec.pre, rec.first) > rec.ind)
       => (~rec.no /\ rec.target = rec.first)
  /\ (pc = "perform_enter" /\ hist.resumed # << >>)
       => LET r == hist.resumed[1] IN
            IndexOf(r.pre, r.first) > r.ind
              => \A m \in Range(perf.path) : IndexOf(r.pre, m) > r.ind

\* C3: on a first failure, recovery replans to the original goal if the move
\* nearest the agent lies earlier in the path than the failed move, and to
\* the nearest move's position if it lies later.
C3_FullReplanIffRegressed ==
  (RecoveryDecided /\ rec.entry = 0) =>
    LET full == rec.no \/ rec.target = -1
        j == IndexOf(rec.pre, rec.first)
    IN /\ (rec.first = -1 \/ j < rec.ind) => full
       /\ j > rec.ind => (~full /\ rec.target = rec.first)

\* C4: within one top-level perform, recovery is invoked at most as often as
\* the retry ceiling allows entries (0 .. RetryCeiling, the last invocation
\* being the one whose replan perform rejects).
C4_RecoveriesBounded == hist.recCount <= RetryCeiling + 1

\* C5: whenever goto has returned or rejected, no control input is set.
C5_ControlsClearedOnExit == pc \in {"idle", "threw"} => ~controls

\* C6: when a reset was requested during a move, goto starts its next search
\* with no interaction of that move outstanding and with the controls cleared.
C6_ResetUnwindsBeforeSearch ==
  (pc = "search_begin" /\ srch.for = "goto" /\ hist.resetReq)
    => (~(cI # "none" /\ hist.own) /\ ~controls)

\* C7: a flagged executor at a hold point aborts every break intent, then
\* every place intent of the move, then waits; an abort or reset failure is
\* raised only after a tick at which the agent was safe to cancel.
C7_HoldAbortsThenWaits ==
  /\ pc \in {"hold_breaks", "hold_places", "hold_wait"}
       => (hold.breaks = mv.toBreak /\ hold.places = mv.toPlace)
  /\ pc = "hold_breaks" => hold.trace = Rep("break", hold.i)
  /\ pc = "hold_places"
       => hold.trace = Rep("break", hold.breaks) \o Rep("place", hold.i)
  /\ pc = "hold_wait"
       => hold.trace = Rep("break", hold.breaks) \o Rep("place", hold.places)
  /\ (pc = "catch" /\ thrown.from = "hold" /\ thrown.kind \in {"abort", "reset"})
       => hold.trace = Rep("break", hold.breaks) \o Rep("place", hold.places)
                         \o << "safeTick" >>

\* A reset failure raised by a hold that had a break and a place to abort.
C7_Witness ==
  /\ pc = "catch"
  /\ thrown = [kind |-> "reset", from |-> "hold"]
  /\ hold.breaks > 0
  /\ hold.places > 0

\* C8: when the abort timeout elapses before a safe tick, the held move still
\* unwinds with a typed failure (user abort or reset).
C8_TimeoutRaisesTypedFailure ==
  (pc = "catch" /\ thrown.from = "hold" /\ "timeout" \in Range(hold.trace))
    => thrown.kind \in {"abort", "reset"}

\* C9: a move whose alignment was still unsatisfied at the tick ceiling is
\* neither initialised nor performed.
C9_AlignFailureCancelsMove ==
  hist.alignFailed => pc \notin {"init_run", "tick_run"}

\* C10: a move whose per-tick loop reached the tick ceiling without
\* completion is not started again.
C10_TickCeilingFailsMove == ~(hist.ceilingHit /\ pc = "align")

\* C11: the catch block of perform sends a CancelError into recovery (whose
\* replan search is the next thing to start), ends perform by a normal return
\* with the executor reset and no recovery for an AbortError or a ResetError,
\* and lets every other error leave perform, so that goto rejects with it.
C11_CatchDispatch ==
  [][pc = "catch" =>
       IF thrown.kind = "cancel"
         THEN pc' = "search_begin" /\ srch'.for = "recovery"
       ELSE IF thrown.kind \in {"abort", "reset"}
         THEN /\ pc' = "perform_ret"
              /\ ex' = NoEx
              /\ srch' = srch
              /\ rec' = rec
              /\ fatal' = fatal
       ELSE /\ pc' = "threw"
            /\ fatal' \in {"moveError", "abortTimeout"}]_vars

\* A perform that a recovery started (a CancelError was caught before) is
\* about to end on a ResetError.
C11_Witness == pc = "catch" /\ thrown.kind = "reset" /\ perf.entry > 0

\* C13: once a reset has been requested while perform runs a path (and no
\* cancel), no further move of that path is performed: a move of it that is
\* started afterwards never gets to its per-tick performance.
C13_ResetAbandonsPath == ~(hist.stale = "begun" /\ pc = "tick_run")

\* C14: whenever isAlreadyCompleted (isComplete) reports a move complete, the
\* move has no outstanding break or place intent, and the executor's current
\* interaction, if there is one, allows exit.
C14_CompleteImpliesNoIntents ==
  hist.skipped # << >> =>
    LET r == hist.skipped[1]
    IN /\ r.breaks = 0
       /\ r.places = 0
       /\ (r.cI = "none" \/ r.allowExit)

\* A move was skipped as complete while an interaction was in flight.
C14_Witness == hist.skipped # << >> /\ hist.skipped[1].cI # "none"

\* The positions of the call chain inside one call of perform.
PerformPcs == MovePcs \cup {"perform_enter", "loop", "align", "catch"}

\* C15: within one call of perform the path index never decreases; it changes
\* only at the end of an iteration of the loop: by one when the move is skipped
\* as already complete, by the positive number per-tick performance returned
\* when the move completes; and the loop goes on while the index is below the
\* path length and ends, perform returning, once it has reached or passed it.
C15_IndexAdvancesOnCompletion ==
  [][(pc \in PerformPcs /\ pc' \in (PerformPcs \cup {"perform_ret"})
        /\ pc' # "perform_enter")
       => LET i == perf.currentIndex
              j == perf'.currentIndex
          IN /\ j >= i
             /\ j # i => /\ pc' = "loop"
                         /\ \/ pc = "loop" /\ j = i + 1
                            \/ pc = "tick_run" /\ (j - i) \in 1 .. MaxAdd
             /\ (pc = "loop" /\ i < Len(perf.path)) => pc' \in {"loop", "align"}
             /\ (pc = "loop" /\ i >= Len(perf.path)) => pc' = "perform_ret"]_vars

\* perform has left its loop with the index past the path length: the last
\* move completed, and a following one with it.
C15_Witness ==
  pc = "perform_ret" /\ perf.path # << >> /\ perf.currentIndex > Len(perf.path)

\* C16: _performInit is called at most once for a move, only after align has
\* reported success, and the per-tick performance of a move runs only after
\* its init.
C16_AlignInitTickOrder ==
  /\ hist.inits <= 1
  /\ pc \in {"init_run", "tick_run", "tick_wait"} => ~hist.alignFailed
  /\ (Watch("ticks") /\ pc \in {"tick_run", "tick_wait"}) => hist.inits >= 1

\* C17: every advance() of a ContinuousPathProducer runs compute() on the one
\* AStar object the producer made on its first advance(): the producer never
\* makes a second one, getAstarContext() keeps returning the first, and each
\* slice adds to the slices that object has already run.
C17_OneEnginePerProducer ==
  [][pc = "search_advance"
       => LET p == srch.producer
              q == srch'.producer
          IN /\ q.engines = 1
             /\ GetAstarContext(q) = 1
             /\ p.astarContext # 0 => GetAstarContext(q) = GetAstarContext(p)
             /\ q.computed = p.computed + 1]_vars

\* A search waits for its next slice after two slices that ended partial.
C17_Witness ==
  /\ pc = "search_wait"
  /\ srch.status \in Unfinished
  /\ srch.producer.computed = 2

\* C18 as stated: every advance() yields its result; the generator goes on to
\* a further advance(), one tick wait later, exactly when the status is
\* partial or partialSuccess; after success it makes no further advance().
C18_AdvancesWhilePartial ==
  [][/\ pc = "search_advance"
        => /\ srch'.status # "none"
           /\ pc' # "search_advance"
           /\ (pc' = "search_wait") <=> (srch'.status \in Unfinished)
           /\ srch'.status = "success" => pc' = "post"
     /\ (pc = "search_wait" /\ pc' # pc) => pc' = "search_advance"]_vars

\* C18 as amended: every advance() yields its result; the generator goes on to
\* a further advance(), one tick wait later, exactly when the status is
\* partial or partialSuccess and abortCalculation is not set; after success it
\* makes no further advance().
C18_AdvancesWhilePartialUnlessAborted ==
  [][/\ pc = "search_advance"
        => /\ srch'.status # "none"
           /\ pc' # "search_advance"
           /\ (pc' = "search_wait")
                 <=> (srch'.status \in Unfinished /\ ~pf.abortCalculation)
           /\ srch'.status = "success" => pc' = "post"
     /\ (pc = "search_wait" /\ pc' # pc) => pc' = "search_advance"]_vars

\* A search of goto ended on a partial result because abortCalculation was set.
C18_Witness ==
  /\ pc = "goto_loop_end"
  /\ srch.status \in Unfinished
  /\ srch.producer.computed > 1

\* C19: once cancel() has set abortCalculation while the generator waits for
\* a tick, the generator makes at most one further advance() before it ends.
C19_OneAdvanceAfterAbort == hist.afterFlag <= 1

\* C20: a search that ends with noPath or timeout never raises: the generator
\* ends after yielding the status; goto leaves its loop with no path and no
\* perform, and goes on to its loop test and cleanupAll, from which it returns;
\* getPathFromToRaw returns null, on which recovery returns.
C20_NoPathNeverRaises ==
  [][/\ (pc = "search_advance" /\ srch'.status \in Failed)
        => /\ pc' = IF srch.for = "goto" THEN "goto_loop_end" ELSE "rec_null"
           /\ srch'.result = << >>
           /\ UNCHANGED << thrown, fatal, perf, mv >>
     /\ (pc = "goto_loop_end" /\ srch.status \in Failed)
        => /\ pc' \in {"search_begin", "on_finish", "cleanup_end"}
           /\ pc' = "search_begin" => pf.resetReason # NoReason
           /\ UNCHANGED << thrown, fatal, perf, mv >>
     /\ pc \in {"on_finish", "cleanup_end"}
        => pc' \in {pc, "cleanup_end", "idle"}
     /\ pc = "rec_null" => pc' = "perform_ret" /\ UNCHANGED << thrown, fatal >>
    ]_vars

\* A search of goto ended with noPath or timeout after an earlier slice.
C20_Witness ==
  /\ pc = "goto_loop_end"
  /\ srch.for = "goto"
  /\ srch.status \in Failed
  /\ srch.producer.computed > 1

\* The positions of the search and execute phases of the goto chain.
PhasePcs == PerformPcs \cup {"search_begin", "search_advance", "search_wait",
                             "post", "goto_after", "goto_loop_end"}

\* C12: no goto begins pathing while the search/execute phases of another
\* goto run: a goto called while another runs starts only after the running
\* one has finished its cleanup.
C12_GotosRunOneAtATime == calls.other = "pathing" => pc \notin PhasePcs

\* C21: every path perform executes, from the search of goto, from a replan
\* of recovery or resumed after a replan, came out of postProcess.
C21_PerformOnlyPostProcessed == pc \in PerformPcs => perf.processed

\* perform runs a move of a path that a replan of recovery produced.
C21_Witness ==
  /\ pc = "tick_run"
  /\ perf.entry > 0
  /\ perf.processed

\* C22: the cleanup callback of every registration goto makes for a dynamic
\* goal runs at most once, and once goto has returned it has run exactly once
\* for each of them.
C22_CleanupExactlyOnce ==
  goal.dynamic
    => /\ goal.cur.cleanups <= 1
       /\ \A n \in goal.replaced : n <= 1
       /\ pc = "idle"
            => /\ goal.cur.made => goal.cur.cleanups = 1
               /\ goal.replaced \subseteq {1}

\* C23: the jump-up provider emits no move with more place intents than the
\* node has blocks left: none with a placement at zero left, none with two
\* at one left.
C23_PlacesWithinRemaining ==
  (fn.op = "getMoveJumpUp" /\ fn.returned)
    => \A i \in DOMAIN fn.neighbors :
         Len(fn.neighbors[i].toPlace) <= fn.node.remainingBlocks

\* A move with two placements is emitted for a node with two blocks left.
C23_Witness ==
  /\ fn.op = "getMoveJumpUp" /\ fn.returned
  /\ fn.node.remainingBlocks = 2
  /\ fn.neighbors # << >>
  /\ Len(fn.neighbors[1].toPlace) = 2

\* C24: every move the jump-up provider emits costs at most the ceiling, and
\* a candidate whose cost is above it after the first, the second or the
\* third penalty appends nothing.
C24_CostWithinCeiling ==
  (fn.op = "getMoveJumpUp" /\ fn.returned)
    => LET b == fn.blocks
       IN /\ \A i \in DOMAIN fn.neighbors :
               fn.neighbors[i].cost <= CostCeiling
          /\ (\/ MoveCost + b.A > CostCeiling
              \/ MoveCost + b.A + b.H > CostCeiling
              \/ MoveCost + b.A + b.H + b.B > CostCeiling)
               => fn.neighbors = << >>

\* A candidate is emitted at exactly the ceiling.
C24_Witness ==
  /\ fn.op = "getMoveJumpUp" /\ fn.returned
  /\ fn.neighbors # << >>
  /\ fn.neighbors[1].cost = CostCeiling

\* The intents of kind k that are not the current interaction, not done and
\* performable within the budget of the call.
Performable(list, k) ==
  {i \in DOMAIN list :
     << k, i >> # fn.cI /\ ~list[i].done /\ list[i].needs <= fn.ticks}

\* C25: interactPossible returns a break whenever a break is performable; it
\* returns a placement only if no break is, and undefined only if no intent of
\* either kind is; what it returns is a performable intent.
C25_BreaksBeforePlaces ==
  (fn.op = "interactPossible" /\ fn.returned)
    => LET breaks == Performable(fn.toBreak, "break")
           places == Performable(fn.toPlace, "place")
       IN /\ fn.result[1] = "break" <=> breaks # {}
          /\ fn.result[1] = "place" <=> (breaks = {} /\ places # {})
          /\ fn.result[1] = "none" <=> (breaks = {} /\ places = {})
          /\ fn.result[1] = "break" => fn.result[2] \in breaks
          /\ fn.result[1] = "place" => fn.result[2] \in places

\* A placement is returned for a move that has a break, which is done or
\* out of reach or the current interaction.
C25_Witness ==
  /\ fn.op = "interactPossible" /\ fn.returned
  /\ fn.toBreak # << >>
  /\ fn.result[1] = "place"

\* C26: the blockUpdate listener calls reset only for an update that changed
\* the type of the block, came while perform was executing a path, lies near
\* a move of that path and is not one of its planned break or place positions.
C26_ResetOnlyForForeignUpdateNearPath ==
  hist.update.reset
    => /\ hist.update.changed
       /\ hist.update.executing
       /\ hist.update.near
       /\ ~hist.update.own

\* C27: when isAlreadyCompleted holds for the move perform has reached, the
\* loop goes straight on with the index one higher: no align, init or
\* per-tick call is made for the move; when it does not hold, the move is
\* begun at the same index.
C27_CompletedMoveIsSkipped ==
  [][(pc = "loop" /\ perf.currentIndex < Len(perf.path) /\ pc' # "threw")
       => IF hist'.skipped # << >>
            THEN /\ pc' = "loop"
                 /\ perf'.currentIndex = perf.currentIndex + 1
                 /\ perf'.path = perf.path
                 /\ mv' = NoMv
            ELSE /\ pc' = "align"
                 /\ perf'.currentIndex = perf.currentIndex]_vars

\* A move was skipped as already complete.
C27_Witness ==
  /\ pc = "loop"
  /\ hist.skipped # << >>
  /\ perf.currentIndex > 0

\* C28: a cancel() or reset() that has come to wait on the task of an
\* executor returns in the end, and a goto that called cancel() because
\* another goto was running gets past that call.
C28_AbortCallsReturn ==
  /\ (calls.cancel \in {"start", "move"}) ~> (calls.cancel = "done")
  /\ (calls.waiting = "abort") ~> (calls.waiting # "abort")

\* C29: the execute task a goto started is finished in the end, whichever
\* way the goto ends, and a goto that waits for that task is woken.
C29_TaskFinishes ==
  /\ (~taskDone) ~> taskDone
  /\ (calls.waiting = "task") ~> (calls.waiting # "task")

\* C30: recovery leaves the moves of the path it was given in their order:
\* while it replans the path is as it was at entry, and the path that is
\* resumed is the path at entry without the moves up to the failed one.
C30_RecoveryKeepsOrder ==
  /\ RecoveryDecided => perf.path = rec.pre
  /\ (pc = "perform_enter" /\ hist.resumed # << >>)
       => LET r == hist.resumed[1] IN
            /\ r.pre[r.ind + 1] \notin Range(perf.path)
            /\ perf.path = SubSeq(r.pre, r.ind + 2, Len(r.pre))

\* C31: while a goto runs, the user-abort flag and the abort-calculation
\* flag, once both set by cancel(), are both still set after every step
\* that does not end the goto.
C31_CancelFlagsStay ==
  [][(/\ pf.userAborted /\ pf.abortCalculation
      /\ pc \notin {"idle", "threw"}
      /\ pc' # "idle")
       => (pf'.userAborted /\ pf'.abortCalculation)]_vars

\* C32: of two goto calls issued while a goto runs, the earlier one returns
\* without starting anything and the later one starts its chain, once the
\* running goto has finished its task.
C32_OnlyLatestGotoProceeds ==
  /\ [][(calls.later # "none" /\ calls.waiting = "ready"
           /\ calls'.waiting # "ready")
          => (calls'.waiting = "returned"
              /\ UNCHANGED << pc, pf, taskDone >>)]_vars
  /\ (calls.later # "none" /\ taskDone)
       ~> (calls.later = "started" /\ calls.waiting = "returned")

\* C33: every perform call that is entered comes to its end, by returning
\* into goto or by an error that leaves goto.
C33_PerformTerminates ==
  (pc = "perform_enter") ~> (pc \in {"goto_after", "threw"})

\* C34: goto replaces no registration of a dynamic goal whose listeners are
\* still on the bot, and once goto has returned the listeners of its last
\* registration are off the bot.
C34_ListenersRemoved ==
  goal.dynamic
    => /\ ~goal.leaked
       /\ (pc = "idle" => ~goal.cur.active)

\* C35: a cancel() or reset() returns only at a moment at which the movement
\* executor carries no abort or reset flag: when it has been reset, or when
\* there was nothing to abort.
C35_AbortReturnsAfterReset ==
  [][(calls.cancel # "done" /\ calls'.cancel = "done")
       => (~ex'.aborted /\ ex'.resetReason = NoReason)]_vars

\* C36: a goto returns only through the end of cleanupAll, where it emits
\* its one terminal event, and that event is goalAborted if cancel() was
\* called while the goto performed a move.
C36_CancelledGotoEmitsAborted ==
  [][(pc # "idle" /\ pc' = "idle")
       => /\ pc = "cleanup_end"
          /\ hist.cancelReq => TerminalEvent(pf) = "goalAborted"]_vars

\* C37: exitedRecovery is emitted only for an entry whose enteredRecovery
\* is not yet matched, and when perform has returned into goto or goto has
\* rejected, no enteredRecovery is left without its exitedRecovery.
C37_RecoveryExits ==
  /\ ~hist.unmatched
  /\ pc \in {"goto_after", "threw"} => hist.open = {}

====
